---- MODULE Spec2Model ----
(***************************************************************************)
(* The concurrent job-processing engine of photo-meta:                     *)
(*   - CancellationManager, ProgressTracker, cancellableWorker, processJob *)
(*     (concurrent.go)                                                     *)
(*   - SignalHandler, GracefulShutdown, cancellableProgressReporter,       *)
(*     ProcessJobsWithCancellation (the signal/cancellation file)          *)
(*   - FileLockManager, WithFilelocks (filelock.go)                        *)
(*   - processPhoto / processMediaFile (main.go)                           *)
(*                                                                         *)
(* Every goroutine is a process with a program counter.  One action is one *)
(* access to shared state (a channel operation, a mutex-protected section, *)
(* a WaitGroup operation) together with the local code that follows it.    *)
(* A Go select is one action per case, enabled when the case is ready.     *)
(***************************************************************************)
EXTENDS Integers, Sequences, FiniteSets, Bags

\* ------------------------------------------------------------------ bounds
MaxJobs == 2          \* longest job list given to ProcessJobsWithCancellation
MaxPath == 3          \* source paths are 1..MaxPath
MaxCallers == 3       \* concurrent API callers of Cancel in SpecCancel
MaxCalls == 2         \* calls of Cancel per caller in SpecCancel
MaxClampJobs == 1     \* longest job list in SpecClamp
MaxFairJobs == 1      \* longest job list in FairSpec
MaxLockCallers == 2   \* goroutines calling the lock wrappers in SpecLocks
MaxDir == 3           \* directories given to WithBatchLocks are 1..MaxDir
MaxDirs == 2          \* longest directory list given to WithBatchLocks
MaxLockCalls == 2     \* wrapper calls per goroutine in SpecLocks
MaxTotal == 4         \* largest total of a ProgressTracker in SpecProgress
MaxTrackerCalls == 3  \* Update and Skip calls in SpecProgress
MaxCounter == 2       \* stands for the 1000 names the move section tries
MaxName == 1          \* file names (newFilename) in SpecMove
MaxCacheCallers == 2  \* goroutines that call the GPSCache in SpecCache
MaxCachePath == 2     \* files the GPSCache is asked about
MaxCacheCalls == 2    \* calls each goroutine makes in SpecCache
MaxPhotos == 3        \* photos given to ProcessPhoto in SpecBatch
MaxBatchWorkers == 2  \* workers of a BatchProcessor in SpecBatch
MaxBatchSize == 2     \* batchSize of a BatchProcessor in SpecBatch
MaxJobCallers == 2    \* goroutines that call processJob in SpecJob
MaxElapsed == 5       \* largest time.Since(StartTime) in SpecProgress
MaxSignals == 3       \* termination signals delivered in SpecSignals

\* ------------------------------------------------------- program constants
MinWorkers == 1       \* lower clamp of numWorkers
MaxWorkers == 16      \* upper clamp of numWorkers
SignalBuffer == 1     \* capacity of the channel sh.signals

\* ------------------------------------------------------------------ inputs
Paths == 1..MaxPath
\* requested worker counts: negative, zero, in range, above the ceiling
WorkerRequests == {-1, 0, 2, MaxWorkers + 1}
\* the requests of the pool specification: one worker and two workers
PoolRequests == {0, 2}
\* handler outcomes of processPhoto: nil, a NoGPSError, any other error
Outcomes == {"ok", "nogps", "error"}
\* JobType values seen by processJob's switch
JobTypes == {"process", "clean"}
\* the jobs a list is made of: a "process" job for every path, and one job
\* of another type
JobChoices == [path : Paths, jobType : {"process"}]
                \cup [path : {1}, jobType : JobTypes]

\* every job type processJob tells apart; "other" is any other string
AllJobTypes == {"process", "datetime", "clean", "other"}
AllJobs == [path : Paths, jobType : AllJobTypes]
\* the goroutines of SpecJob that call processJob
JobCallers == 1..MaxJobCallers

Bridge == 0                       \* the signal bridge goroutine calls Cancel
Callers == 0..MaxCallers          \* Bridge and the API callers of SpecCancel
NoHolder == 0
\* the goroutines of SpecLocks that call WithFilelocks and WithBatchLocks
LockCallers == 1..MaxLockCallers
\* directory names: 1 and 2 are two spellings of one directory that differ
\* in case only, 3 is another directory
Dirs == 1..MaxDir
\* the error values fn() returns
FnResults == {"nil", "error"}

VARIABLES
    jobs,            \* the jobs argument: sequence of [path, jobType]
    reqWorkers,      \* the numWorkers argument
    numWorkers,      \* numWorkers after the clamp
    mainPc,          \* position of ProcessJobsWithCancellation
    retErr,          \* its return value is an error
    cancelled,       \* CancellationManager.cancelled
    ctxDone,         \* cm.ctx.Done() is closed
    cmMu,            \* holder of CancellationManager.mu (NoHolder, or caller+1)
    wg,              \* CancellationManager.wg counter
    callPc,          \* position of each caller inside Cancel/CancelWithReason
    cancelFired,     \* history: how often the guarded body of Cancel ran
    calls,           \* history: calls of Cancel/CancelWithReason per caller
    observed,        \* what each caller's last IsCancelled() returned
    sigPc,           \* position of the goroutine of SignalHandler.Start
    shDone,          \* SignalHandler.done is closed
    workers,         \* bag of worker states [pc, job, success]
    jobChan,         \* buffered channel of job indices
    jobClosed,       \* jobChan is closed
    feedPc,          \* the feeder goroutine: "send", "done"
    feedIdx,         \* the feeder's position in the range over jobs
    resultChan,      \* buffered channel of results [job, success]
    results,         \* the results slice of the collector
    collPc,          \* collector goroutine: "recv", "update", "done"
    collI,           \* collector loop variable i
    resultsComplete, \* resultsComplete is closed
    progress,        \* ProgressTracker [Total, Completed, Failed, Skipped]
    repPc,           \* reporter goroutine position
    rendered,        \* final snapshots rendered by the reporter
    locks,           \* FileLockManager.locks: key -> holder (job index)
    gsPc,            \* GracefulShutdown's waiting goroutine
    workersDone,     \* workersDone is closed
    gsResult,        \* what GracefulShutdown returned
    summary,         \* what printCancellableProcessingSummary printed
    dequeued,        \* history: jobs received from jobChan by workers
    dequeuedAtCancel,\* history: value of dequeued when cancelled became true
    handled,         \* history: job indices for which processJob was called
    handlerFailed,   \* history: job indices whose handler returned an error
    lockOps,         \* callers of the lock wrappers: their position and locals
    ptView,          \* what the last read of the ProgressTracker returned
    sigBuf,          \* signals waiting in the buffer of sh.signals
    sigCount,        \* history: termination signals delivered to the process
    pjOps,           \* callers of processJob: their position, job and result
    fs,              \* destination tree: path -> the call that put the file there
    mvOps,           \* callers inside the move section: their locals
    landed,          \* history: the renames that succeeded
    gpsCache,        \* GPSCache: data, the file on disk, the state of c.mu
    gcOps,           \* callers of the GPSCache: their position and locals
    bp               \* BatchProcessor, its updater, its workers and its caller

vars == << jobs, reqWorkers, numWorkers, mainPc, retErr, cancelled, ctxDone,
           cmMu, wg, callPc, cancelFired, calls, observed, sigPc, shDone, workers, jobChan,
           jobClosed, feedPc, feedIdx, resultChan, results, collPc, collI,
           resultsComplete, progress, repPc, rendered, locks, gsPc,
           workersDone, gsResult, summary, dequeued, dequeuedAtCancel,
           handled, handlerFailed, lockOps, ptView, sigBuf, sigCount,
           pjOps, fs, mvOps, landed, gpsCache, gcOps, bp >>

cmVars == << cancelled, ctxDone, cmMu, callPc, cancelFired, calls,
            observed, dequeuedAtCancel >>
mainVars == << numWorkers, mainPc, retErr, gsResult, summary >>
chanVars == << jobChan, jobClosed, resultChan >>
feedVars == << feedPc, feedIdx >>
collVars == << results, collPc, collI, resultsComplete >>
repVars == << repPc, rendered >>
sigVars == << sigPc, shDone >>
workVars == << workers, wg, locks, dequeued, handled, handlerFailed >>
gsVars == << gsPc, workersDone >>
inVars == << jobs, reqWorkers >>
\* the variables of the functions and types that are checked on their own
libVars == << pjOps, fs, mvOps, landed, gpsCache, gcOps, bp >>
apiVars == << lockOps, ptView, sigBuf, sigCount, libVars >>

\* ----------------------------------------------------------------- helpers
Min(a, b) == IF a < b THEN a ELSE b
Max(a, b) == IF a > b THEN a ELSE b

NumJobs == Len(jobs)

\* filepath.Clean: paths 1 and 2 are two spellings of one file, 3 and 4 of
\* another, and so on.
Clean(p) == (p + 1) \div 2

\* predictTargetDirectory: md5 of the (uncleaned) path, first two hex digits.
\* A fixed many-to-one map: odd paths fall in bucket 1, even paths in bucket 2.
predictTargetDirectory(p) == ((p + 1) % 2) + 1

\* The key LockFile uses for a source file, and for the ".dir_lock" file of
\* a predicted directory.  Media files never are named ".dir_lock", so the
\* two kinds of key are distinct.
FileKey(p) == << "file", Clean(p) >>
DirLockKey(p) == << "dir_lock", predictTargetDirectory(p) >>
LockKeys == { FileKey(p) : p \in Paths } \cup { DirLockKey(p) : p \in Paths }

\* A worker in the state w becomes w2.
WorkerStep(w, w2) == workers' = (workers (-) SetToBag({w})) (+) SetToBag({w2})
WorkerAt(pc) == { w \in BagToSet(workers) : w.pc = pc }
Idle == [pc |-> "select", job |-> 0, success |-> FALSE]
Gone == [pc |-> "done", job |-> 0, success |-> FALSE]
InitProgress == [Total |-> 0, Completed |-> 0, Failed |-> 0, Skipped |-> 0]
\* a goroutine that is in no lock wrapper
NoOp == [pc |-> "idle", kind |-> "none", path |-> 0, dirs |-> << >>,
         lockedPaths |-> << >>, locked |-> << >>, i |-> 0, err |-> "nil",
         calls |-> 0]
\* nothing was read from the ProgressTracker yet
NoView == [op |-> "none", total |-> 0, completed |-> 0, failed |-> 0,
           skipped |-> 0, complete |-> FALSE, remaining |-> 0,
           elapsed |-> 0, eta |-> 0]
NoSummary == [printed |-> FALSE, completed |-> 0, failed |-> 0, skipped |-> 0,
              total |-> 0, cancelled |-> FALSE]

\* ------------------------------------------------------------------- Init
\* The arguments of one call of ProcessJobsWithCancellation, before its
\* first statement.  Nothing is running yet.
\* processJob was not called yet
NoJobOp == [pc |-> "idle", job |-> [path |-> 1, jobType |-> "process"],
            out |-> "none",
            result |-> [Job |-> [path |-> 1, jobType |-> "process"],
                        Success |-> FALSE, Message |-> "", Error |-> "nil"]]

\* nothing was called yet on the functions and types checked on their own
\* a caller outside the move section
NoMove == [pc |-> "none", base |-> 0, counter |-> 0, finalPath |-> << 0, 0 >>]

\* a file that was in the destination tree before the run
PreExisting == << 0, 0 >>

\* the goroutines of SpecCache that call the GPSCache, and the files
CacheCallers == 1..MaxCacheCallers
CachePaths == 1..MaxCachePath

\* NewGPSCache on a path without a file: no entry, c.mu free.  c.mu is a
\* sync.RWMutex: w is the goroutine holding it for writing, r the
\* goroutines holding it for reading, pending the goroutines inside Lock()
\* that wait for it.
NoCache == [data |-> {}, disk |-> {}, w |-> NoHolder, r |-> {}, pending |-> {}]

\* a goroutine outside the GPSCache
NoCacheOp == [pc |-> "idle", op |-> "none", path |-> 0, ret |-> "returned",
              removed |-> 0, calls |-> 0]

\* no BatchProcessor was made
NoBatch == [workers |-> 0, batchSize |-> 0, jobChan |-> << >>,
            closed |-> FALSE, doneClosed |-> FALSE, ctxDone |-> FALSE,
            w |-> << >>, wg |-> 0, pending |-> << >>,
            TotalFiles |-> 0, ProcessedFiles |-> 0, FailedFiles |-> 0,
            BatchCount |-> 0, batches |-> << >>, submitted |-> 0,
            stopPc |-> "running", err |-> FALSE]

LibNotStarted ==
    /\ pjOps = [c \in JobCallers |-> NoJobOp]
    /\ fs = << >>
    /\ mvOps = [c \in LockCallers |-> NoMove]
    /\ landed = {}
    /\ gpsCache = NoCache
    /\ gcOps = [c \in CacheCallers |-> NoCacheOp]
    /\ bp = NoBatch

NotStarted ==
    /\ numWorkers = 0
    /\ mainPc = "start"
    /\ retErr = FALSE
    /\ cancelled = FALSE
    /\ ctxDone = FALSE
    /\ cmMu = NoHolder
    /\ wg = 0
    /\ callPc = [c \in Callers |-> "idle"]
    /\ cancelFired = 0
    /\ calls = [c \in Callers |-> 0]
    /\ observed = [c \in Callers |-> "none"]
    /\ sigPc = "off"
    /\ shDone = FALSE
    /\ workers = EmptyBag
    /\ jobChan = << >>
    /\ jobClosed = FALSE
    /\ feedPc = "off"
    /\ feedIdx = 1
    /\ resultChan = << >>
    /\ results = << >>
    /\ collPc = "off"
    /\ collI = 0
    /\ resultsComplete = FALSE
    /\ progress = InitProgress
    /\ repPc = "off"
    /\ rendered = << >>
    /\ locks = << >>
    /\ gsPc = "off"
    /\ workersDone = FALSE
    /\ gsResult = "none"
    /\ summary = NoSummary
    /\ dequeued = 0
    /\ dequeuedAtCancel = 0
    /\ handled = {}
    /\ handlerFailed = {}
    /\ lockOps = [c \in LockCallers |-> NoOp]
    /\ ptView = NoView
    /\ sigBuf = 0
    /\ sigCount = 0
    /\ LibNotStarted

\* One call with up to MaxJobs jobs and a request that gives one or two
\* workers.
Init ==
    /\ \E n \in 0..MaxJobs : jobs \in [1..n -> JobChoices]
    /\ reqWorkers \in PoolRequests
    /\ NotStarted

\* ------------------------------------------------- CancellationManager
\* (mutant) Cancel without the test of cm.cancelled
CancelEnterUnguarded(c, firePc) ==
    /\ cmMu = NoHolder
    /\ calls' = [calls EXCEPT ![c] = @ + 1]
    /\ cancelled' = TRUE
    /\ cmMu' = c + 1
    /\ cancelFired' = cancelFired + 1
    /\ dequeuedAtCancel' = dequeued
    /\ callPc' = [callPc EXCEPT ![c] = firePc]
    /\ UNCHANGED << ctxDone, observed >>

\* (mutant) Cancel that closes ctx.Done() and leaves the flag unset
CancelEnterFiresUnflagged(c, firePc) ==
    /\ cmMu = NoHolder
    /\ calls' = [calls EXCEPT ![c] = @ + 1]
    /\ ctxDone' = TRUE
    /\ cmMu' = c + 1
    /\ cancelFired' = cancelFired + 1
    /\ callPc' = [callPc EXCEPT ![c] = firePc]
    /\ UNCHANGED << cancelled, dequeuedAtCancel, observed >>

\* Cancel and CancelWithReason up to the call of cm.cancel():
\*   cm.mu.Lock(); if !cm.cancelled { cm.cancelled = true; ...
\* The lock, the test and the assignment are one step: nothing can observe
\* the flag while the mutex is held.  A call that finds the flag set only
\* unlocks and returns.
CancelEnter(c, firePc) ==
    /\ cmMu = NoHolder
    /\ calls' = [calls EXCEPT ![c] = @ + 1]
    /\ IF ~cancelled
         THEN /\ cancelled' = TRUE
              /\ cmMu' = c + 1
              /\ cancelFired' = cancelFired + 1
              /\ dequeuedAtCancel' = dequeued
              /\ callPc' = [callPc EXCEPT ![c] = firePc]
         ELSE /\ callPc' = [callPc EXCEPT ![c] = "returned"]
              /\ UNCHANGED << cancelled, cmMu, cancelFired, dequeuedAtCancel >>
    /\ UNCHANGED << ctxDone, observed >>

\* cm.cancel() closes ctx.Done(); then the deferred cm.mu.Unlock().
\* CancelWithReason has printed the reason before.
CancelFire(c) ==
    /\ callPc[c] \in {"fire", "fireReason"}
    /\ ctxDone' = TRUE
    /\ cmMu' = NoHolder
    /\ callPc' = [callPc EXCEPT ![c] = "returned"]
    /\ UNCHANGED << cancelled, cancelFired, calls, observed,
                    dequeuedAtCancel >>
    /\ UNCHANGED << inVars, apiVars, mainVars, chanVars, feedVars, collVars, repVars,
                    sigVars, workVars, gsVars, progress >>

\* ShouldContinue / IsCancelled: lock, read, unlock.  The read needs the
\* mutex, so an action that reads has CanReadCancelled as a guard.
CanReadCancelled == cmMu = NoHolder
IsCancelled == cancelled
ShouldContinue == ~cancelled

\* ------------------------------------------------------- SignalHandler
\* Start's goroutine: case sig := <-sh.signals: ... sh.cancelMgr.Cancel()
BridgeSignal ==
    /\ sigPc = "listen"
    /\ CancelEnter(Bridge, "fire")
    /\ sigPc' = "cancel"
    /\ UNCHANGED << shDone, inVars, apiVars, mainVars, chanVars, feedVars, collVars,
                    repVars, workVars, gsVars, progress >>

\* Start's goroutine: case <-sh.done: return
BridgeStopped ==
    /\ sigPc = "listen"
    /\ shDone
    /\ sigPc' = "exit"
    /\ UNCHANGED << shDone, cmVars, inVars, apiVars, mainVars, chanVars, feedVars,
                    collVars, repVars, workVars, gsVars, progress >>

\* ------------------------------------------ ProcessJobsWithCancellation
\* (mutant) the clamp without its ceiling
ClampWorkersNoCeiling(n) == IF n < MinWorkers THEN MinWorkers ELSE n

\* if numWorkers < 1 { 1 } else if numWorkers > 16 { 16 }
ClampWorkers(n) ==
    IF n < MinWorkers THEN MinWorkers
    ELSE IF n > MaxWorkers THEN MaxWorkers
    ELSE n

\* k workers at the top of their loop
StartWorkers(k) == [w \in {Idle} |-> k]

\* Everything up to the final select: clamp, NewProgressTracker,
\* NewCancellationManager, signalHandler.Start(), the channels, one AddWorker
\* and one goroutine per worker, the reporter, the feeder and the collector.
Start ==
    /\ mainPc = "start"
    /\ numWorkers' = ClampWorkers(reqWorkers)
    /\ progress' = [InitProgress EXCEPT !.Total = NumJobs]
    /\ sigPc' = "listen"
    /\ workers' = StartWorkers(numWorkers')
    /\ wg' = numWorkers'
    /\ repPc' = "test"
    /\ feedPc' = "send"
    /\ collPc' = "recv"
    /\ mainPc' = "wait"
    /\ UNCHANGED << inVars, apiVars, retErr, gsResult, summary, cmVars, shDone,
                    chanVars, feedIdx, results, collI, resultsComplete,
                    rendered, locks, dequeued, handled, handlerFailed,
                    gsVars >>

\* the feeder: case jobChan <- job (the channel has room for len(jobs))
FeederSend ==
    /\ feedPc = "send"
    /\ feedIdx <= NumJobs
    /\ Len(jobChan) < NumJobs
    /\ jobChan' = Append(jobChan, feedIdx)
    /\ feedIdx' = feedIdx + 1
    /\ UNCHANGED << feedPc, jobClosed, resultChan, inVars, apiVars, mainVars, cmVars,
                    sigVars, collVars, repVars, workVars, gsVars, progress >>

\* (mutant) a feeder that returns on cancellation without closing jobChan
FeederCancelledNoClose ==
    /\ feedPc = "send"
    /\ feedIdx <= NumJobs
    /\ ctxDone
    /\ feedPc' = "done"
    /\ UNCHANGED << feedIdx, chanVars, inVars, apiVars, mainVars, cmVars,
                    sigVars, collVars, repVars, workVars, gsVars, progress >>

\* the feeder: case <-cancelMgr.Context().Done(): return, closing jobChan
FeederCancelled ==
    /\ feedPc = "send"
    /\ feedIdx <= NumJobs
    /\ ctxDone
    /\ jobClosed' = TRUE
    /\ feedPc' = "done"
    /\ UNCHANGED << feedIdx, jobChan, resultChan, inVars, apiVars, mainVars, cmVars,
                    sigVars, collVars, repVars, workVars, gsVars, progress >>

\* (mutant) the feeder ends without closing jobChan
FeederCloseLeavesOpen ==
    /\ feedPc = "send"
    /\ feedIdx > NumJobs
    /\ feedPc' = "done"
    /\ UNCHANGED << feedIdx, chanVars, inVars, apiVars, mainVars, cmVars,
                    sigVars, collVars, repVars, workVars, gsVars, progress >>

\* the feeder: the range is exhausted; the deferred close(jobChan)
FeederClose ==
    /\ feedPc = "send"
    /\ feedIdx > NumJobs
    /\ jobClosed' = TRUE
    /\ feedPc' = "done"
    /\ UNCHANGED << feedIdx, jobChan, resultChan, inVars, apiVars, mainVars, cmVars,
                    sigVars, collVars, repVars, workVars, gsVars, progress >>

\* -------------------------------------------------------- FileLockManager
Held(key) == key \in DOMAIN locks /\ locks[key] # NoHolder

\* (mutant) LockFile that does not wait for the holder
LockFileNoWait(key, holder) ==
    locks' = [k \in DOMAIN locks \cup {key} |->
                 IF k = key THEN holder ELSE locks[k]]

\* LockFile: create the entry if missing, then lock.Lock(), which blocks
\* while another holder has it.
LockFile(key, holder) ==
    /\ ~Held(key)
    /\ locks' = [k \in DOMAIN locks \cup {key} |->
                    IF k = key THEN holder ELSE locks[k]]

\* UnlockFile: if the entry exists, lock.Unlock()
UnlockFile(key) ==
    locks' = [k \in DOMAIN locks |-> IF k = key THEN NoHolder ELSE locks[k]]

\* ------------------------------------------------------ cancellableWorker
WorkerFrame == UNCHANGED << inVars, apiVars, mainVars, cmVars, sigVars, feedVars,
                            collVars, repVars, gsVars, progress >>

\* (mutant) a worker that returns without WorkerDone
WorkerReturnNoDone(w) ==
    /\ WorkerStep(w, Gone)
    /\ wg' = wg

\* the deferred cancelMgr.WorkerDone() of a returning worker
WorkerReturn(w) ==
    /\ WorkerStep(w, Gone)
    /\ wg' = wg - 1

\* (mutant) a receive that leaves the job on the channel
WorkerDequeueKeeps ==
    \E w \in WorkerAt("select") :
        /\ jobChan # << >>
        /\ dequeued < MaxJobs
        /\ WorkerStep(w, [w EXCEPT !.pc = "check", !.job = Head(jobChan)])
        /\ dequeued' = dequeued + 1
        /\ UNCHANGED << chanVars, wg, locks, handled, handlerFailed >>
        /\ WorkerFrame

\* case job, ok := <-jobs, with ok: a job is received
WorkerDequeue ==
    \E w \in WorkerAt("select") :
        /\ jobChan # << >>
        /\ WorkerStep(w, [w EXCEPT !.pc = "check", !.job = Head(jobChan)])
        /\ jobChan' = Tail(jobChan)
        /\ dequeued' = dequeued + 1
        /\ UNCHANGED << jobClosed, resultChan, wg, locks, handled,
                        handlerFailed >>
        /\ WorkerFrame

\* case job, ok := <-jobs, with !ok: the channel is closed and drained
WorkerJobsClosed ==
    \E w \in WorkerAt("select") :
        /\ jobChan = << >>
        /\ jobClosed
        /\ WorkerReturn(w)
        /\ UNCHANGED << chanVars, locks, dequeued, handled, handlerFailed >>
        /\ WorkerFrame

\* case <-cancelMgr.Context().Done() of the outer select
WorkerCancelled ==
    \E w \in WorkerAt("select") :
        /\ ctxDone
        /\ WorkerReturn(w)
        /\ UNCHANGED << chanVars, locks, dequeued, handled, handlerFailed >>
        /\ WorkerFrame

\* processJob's switch on job.JobType, up to the first blocking call:
\* "process" enters processPhoto -> processMediaFile -> WithFilelocks;
\* every other type yields an unsuccessful result at once.
processJob(w) ==
    IF jobs[w.job].jobType = "process"
      THEN [w EXCEPT !.pc = "lockSrc"]
      ELSE [w EXCEPT !.pc = "publish", !.success = FALSE]

\* (mutant) the worker does not re-check the flag after the dequeue
WorkerCheckNoRecheck ==
    \E w \in WorkerAt("check") :
        /\ WorkerStep(w, processJob(w))
        /\ handled' = handled \cup {w.job}
        /\ UNCHANGED << chanVars, wg, locks, dequeued, handlerFailed >>
        /\ WorkerFrame

\* (mutant) a worker that sees the cancellation after the dequeue publishes
\* a failed result for the job it did not process
WorkerCheckReportsDropped ==
    \E w \in WorkerAt("check") :
        /\ CanReadCancelled
        /\ IF ShouldContinue
             THEN /\ WorkerStep(w, processJob(w))
                  /\ handled' = handled \cup {w.job}
             ELSE /\ WorkerStep(w, [w EXCEPT !.pc = "publish", !.success = FALSE])
                  /\ handled' = handled
        /\ UNCHANGED << chanVars, wg, locks, dequeued, handlerFailed >>
        /\ WorkerFrame

\* if !cancelMgr.ShouldContinue() { return }; result := processJob(...)
WorkerCheck ==
    \E w \in WorkerAt("check") :
        /\ CanReadCancelled
        /\ IF ShouldContinue
             THEN /\ WorkerStep(w, processJob(w))
                  /\ handled' = handled \cup {w.job}
                  /\ wg' = wg
             ELSE /\ WorkerReturn(w)
                  /\ handled' = handled
        /\ UNCHANGED << chanVars, locks, dequeued, handlerFailed >>
        /\ WorkerFrame

\* LockDirectory: flm.LockFile(filePath)
WorkerLockSrc ==
    \E w \in WorkerAt("lockSrc") :
        /\ LockFile(FileKey(jobs[w.job].path), w.job)
        /\ WorkerStep(w, [w EXCEPT !.pc = "lockTok"])
        /\ UNCHANGED << chanVars, wg, dequeued, handled, handlerFailed >>
        /\ WorkerFrame

\* LockDirectory: flm.LockFile(targetLockPath)
WorkerLockTok ==
    \E w \in WorkerAt("lockTok") :
        /\ LockFile(DirLockKey(jobs[w.job].path), w.job)
        /\ WorkerStep(w, [w EXCEPT !.pc = "handler"])
        /\ UNCHANGED << chanVars, wg, dequeued, handled, handlerFailed >>
        /\ WorkerFrame

\* (mutant) a handler error ends the worker instead of becoming a result
HandlerReturnAbort ==
    \E w \in WorkerAt("handler") : \E out \in Outcomes :
        /\ IF out = "ok"
             THEN /\ WorkerStep(w, [w EXCEPT !.pc = "relSrc", !.success = TRUE])
                  /\ wg' = wg
             ELSE WorkerReturn(w)
        /\ handlerFailed' = IF out = "ok" THEN handlerFailed
                                          ELSE handlerFailed \cup {w.job}
        /\ UNCHANGED << chanVars, locks, dequeued, handled >>
        /\ WorkerFrame

\* fn() = processMediaFileInternal returns: nil, a NoGPSError or another
\* error.  processJob sets Success = true only for nil.
HandlerReturn ==
    \E w \in WorkerAt("handler") : \E out \in Outcomes :
        /\ WorkerStep(w, [w EXCEPT !.pc = "relSrc", !.success = (out = "ok")])
        /\ handlerFailed' = IF out = "ok" THEN handlerFailed
                                          ELSE handlerFailed \cup {w.job}
        /\ UNCHANGED << chanVars, wg, locks, dequeued, handled >>
        /\ WorkerFrame

\* the deferred operation.Release(): lockedPaths[0] is the source file
WorkerRelSrc ==
    \E w \in WorkerAt("relSrc") :
        /\ UnlockFile(FileKey(jobs[w.job].path))
        /\ WorkerStep(w, [w EXCEPT !.pc = "relTok"])
        /\ UNCHANGED << chanVars, wg, dequeued, handled, handlerFailed >>
        /\ WorkerFrame

\* operation.Release(): lockedPaths[1] is the predicted directory's lock file
WorkerRelTok ==
    \E w \in WorkerAt("relTok") :
        /\ UnlockFile(DirLockKey(jobs[w.job].path))
        /\ WorkerStep(w, [w EXCEPT !.pc = "publish"])
        /\ UNCHANGED << chanVars, wg, dequeued, handled, handlerFailed >>
        /\ WorkerFrame

\* case results <- result (the channel has room for len(jobs))
WorkerPublish ==
    \E w \in WorkerAt("publish") :
        /\ Len(resultChan) < NumJobs
        /\ resultChan' = Append(resultChan, [job |-> w.job, success |-> w.success])
        /\ WorkerStep(w, Idle)
        /\ UNCHANGED << jobChan, jobClosed, wg, locks, dequeued, handled,
                        handlerFailed >>
        /\ WorkerFrame

\* case <-cancelMgr.Context().Done() of the inner select: the result is dropped
WorkerPublishCancelled ==
    \E w \in WorkerAt("publish") :
        /\ ctxDone
        /\ WorkerReturn(w)
        /\ UNCHANGED << chanVars, locks, dequeued, handled, handlerFailed >>
        /\ WorkerFrame

\* ---------------------------------------------------------- ProgressTracker
\* (mutant) Update that counts a failure twice in Completed instead of
\* once in Completed and once in Failed
UpdateMiscount(pt, success) ==
    [pt EXCEPT !.Completed = IF success THEN @ + 1 ELSE @ + 2]

\* (mutant) Update that counts a failure in Failed only
UpdateFailedOnly(pt, success) ==
    IF success THEN [pt EXCEPT !.Completed = @ + 1]
               ELSE [pt EXCEPT !.Failed = @ + 1]

\* Update: Completed++; if !success { Failed++ }
Update(pt, success) ==
    [pt EXCEPT !.Completed = @ + 1,
               !.Failed = IF success THEN @ ELSE @ + 1]

\* IsComplete: Completed + Skipped >= Total
IsComplete(pt) == pt.Completed + pt.Skipped >= pt.Total

\* ---------------------------------------------------- the result collector
CollectorFrame == UNCHANGED << inVars, apiVars, mainVars, cmVars, sigVars, feedVars,
                               repVars, workVars, gsVars, jobChan, jobClosed >>

\* (mutant) the collector stops one result short
CollectorLoopShort(i) == i < NumJobs - 1

\* for i := 0; i < len(jobs); i++
CollectorLoop(i) == i < NumJobs

\* case result := <-resultChan: results = append(results, result)
CollectorRecv ==
    /\ collPc = "recv"
    /\ CollectorLoop(collI)
    /\ resultChan # << >>
    /\ results' = Append(results, Head(resultChan))
    /\ resultChan' = Tail(resultChan)
    /\ collPc' = "update"
    /\ UNCHANGED << collI, resultsComplete, progress >>
    /\ CollectorFrame

\* progress.Update(result.Success); i++
CollectorUpdate ==
    /\ collPc = "update"
    /\ progress' = Update(progress, results[Len(results)].success)
    /\ collI' = collI + 1
    /\ collPc' = "recv"
    /\ UNCHANGED << results, resultsComplete, resultChan >>
    /\ CollectorFrame

\* case <-cancelMgr.Context().Done(): return, closing resultsComplete
CollectorCancelled ==
    /\ collPc = "recv"
    /\ CollectorLoop(collI)
    /\ ctxDone
    /\ resultsComplete' = TRUE
    /\ collPc' = "done"
    /\ UNCHANGED << results, collI, resultChan, progress >>
    /\ CollectorFrame

\* i == len(jobs): the deferred close(resultsComplete)
CollectorDone ==
    /\ collPc = "recv"
    /\ ~CollectorLoop(collI)
    /\ resultsComplete' = TRUE
    /\ collPc' = "done"
    /\ UNCHANGED << results, collI, resultChan, progress >>
    /\ CollectorFrame

\* --------------------------------------------- cancellableProgressReporter
ReporterFrame == UNCHANGED << inVars, apiVars, mainVars, cmVars, sigVars, feedVars,
                              collVars, workVars, gsVars, chanVars, progress >>

\* for !progress.IsComplete() && cancelMgr.ShouldContinue()
ReporterTest ==
    /\ repPc = "test"
    /\ IF IsComplete(progress)
         THEN repPc' = "final"
         ELSE /\ CanReadCancelled
              /\ repPc' = IF ShouldContinue THEN "wait" ELSE "final"
    /\ UNCHANGED rendered
    /\ ReporterFrame

\* case <-ticker.C: a progress line (not a final snapshot)
ReporterTick ==
    /\ repPc = "wait"
    /\ CanReadCancelled
    /\ repPc' = "test"
    /\ UNCHANGED rendered
    /\ ReporterFrame

\* case <-cancelMgr.Context().Done(): print "... [CANCELLED]" and return
ReporterCancelled ==
    /\ repPc = "wait"
    /\ ctxDone
    /\ rendered' = Append(rendered, [cancelledTag |-> TRUE])
    /\ repPc' = "done"
    /\ ReporterFrame

\* (mutant) the final update without the test of IsCancelled()
ReporterFinalUntagged ==
    /\ repPc = "final"
    /\ CanReadCancelled
    /\ rendered' = Append(rendered, [cancelledTag |-> FALSE])
    /\ repPc' = "done"
    /\ ReporterFrame

\* after the loop: finalMsg, with " [CANCELLED]" if cancelMgr.IsCancelled()
ReporterFinal ==
    /\ repPc = "final"
    /\ CanReadCancelled
    /\ rendered' = Append(rendered, [cancelledTag |-> IsCancelled])
    /\ repPc' = "done"
    /\ ReporterFrame

\* ------------------------------- ProcessJobsWithCancellation: final select
MainFrame == UNCHANGED << inVars, apiVars, numWorkers, cmVars, chanVars, feedVars,
                          collVars, repVars, workVars, progress >>

\* case <-resultsComplete: "Normal completion"
MainResultsComplete ==
    /\ mainPc = "wait"
    /\ resultsComplete
    /\ mainPc' = "normalWait"
    /\ UNCHANGED << retErr, gsResult, summary, sigVars, gsVars >>
    /\ MainFrame

\* cancelMgr.Wait() of the normal branch: no timeout
MainWait ==
    /\ mainPc = "normalWait"
    /\ wg = 0
    /\ mainPc' = "progressWait"
    /\ UNCHANGED << retErr, gsResult, summary, sigVars, gsVars >>
    /\ MainFrame

\* case <-cancelMgr.Context().Done(): GracefulShutdown starts its goroutine
MainCancelSeen ==
    /\ mainPc = "wait"
    /\ ctxDone
    /\ mainPc' = "graceful"
    /\ gsPc' = "wait"
    /\ UNCHANGED << retErr, gsResult, summary, sigVars, workersDone >>
    /\ MainFrame

\* (mutant) the goroutine closes workersDone without the Wait()
ShutdownWaiterNoWait ==
    /\ gsPc = "wait"
    /\ workersDone' = TRUE
    /\ gsPc' = "done"
    /\ UNCHANGED << mainPc, retErr, gsResult, summary, sigVars >>
    /\ MainFrame

\* GracefulShutdown's goroutine: sh.cancelMgr.Wait(); close(workersDone)
ShutdownWaiter ==
    /\ gsPc = "wait"
    /\ wg = 0
    /\ workersDone' = TRUE
    /\ gsPc' = "done"
    /\ UNCHANGED << mainPc, retErr, gsResult, summary, sigVars >>
    /\ MainFrame

\* GracefulShutdown: case <-workersDone: return nil
GracefulDone ==
    /\ mainPc = "graceful"
    /\ workersDone
    /\ gsResult' = "nil"
    /\ mainPc' = "progressWait"
    /\ UNCHANGED << retErr, summary, sigVars, gsVars >>
    /\ MainFrame

\* GracefulShutdown: case <-ctx.Done(): the 30 s timeout; return an error
GracefulTimeout ==
    /\ mainPc = "graceful"
    /\ gsResult' = "timeout"
    /\ mainPc' = "progressWait"
    /\ UNCHANGED << retErr, summary, sigVars, gsVars >>
    /\ MainFrame

\* progressWg.Wait() of either branch
MainProgressWait ==
    /\ mainPc = "progressWait"
    /\ repPc = "done"
    /\ mainPc' = "summary"
    /\ UNCHANGED << retErr, gsResult, summary, sigVars, gsVars >>
    /\ MainFrame

\* printCancellableProcessingSummary: progress.GetStats() and IsCancelled()
MainSummary ==
    /\ mainPc = "summary"
    /\ CanReadCancelled
    /\ summary' = [printed |-> TRUE, total |-> progress.Total,
                   completed |-> progress.Completed, failed |-> progress.Failed,
                   skipped |-> progress.Skipped, cancelled |-> IsCancelled]
    /\ mainPc' = "check"
    /\ UNCHANGED << retErr, gsResult, sigVars, gsVars >>
    /\ MainFrame

\* (mutant) a failed job makes the run return an error
MainCheckFailures ==
    /\ mainPc = "check"
    /\ CanReadCancelled
    /\ retErr' = (IsCancelled \/ progress.Failed > 0)
    /\ mainPc' = "stop"
    /\ UNCHANGED << gsResult, summary, sigVars, gsVars >>
    /\ MainFrame

\* if cancelMgr.IsCancelled() { return error }; return nil
MainCheck ==
    /\ mainPc = "check"
    /\ CanReadCancelled
    /\ retErr' = IsCancelled
    /\ mainPc' = "stop"
    /\ UNCHANGED << gsResult, summary, sigVars, gsVars >>
    /\ MainFrame

\* the deferred signalHandler.Stop(): close(sh.done); the function returns
MainStop ==
    /\ mainPc = "stop"
    /\ shDone' = TRUE
    /\ mainPc' = "returned"
    /\ UNCHANGED << retErr, gsResult, summary, sigPc, gsVars >>
    /\ MainFrame

\* ---------------------------------------------------------- specification
Next ==
    \/ Start
    \/ BridgeSignal \/ BridgeStopped \/ CancelFire(Bridge)
    \/ FeederSend \/ FeederCancelled \/ FeederClose
    \/ WorkerDequeue \/ WorkerJobsClosed \/ WorkerCancelled \/ WorkerCheck
    \/ WorkerLockSrc \/ WorkerLockTok \/ HandlerReturn
    \/ WorkerRelSrc \/ WorkerRelTok
    \/ WorkerPublish \/ WorkerPublishCancelled
    \/ CollectorRecv \/ CollectorUpdate \/ CollectorCancelled \/ CollectorDone
    \/ ReporterTest \/ ReporterTick \/ ReporterCancelled \/ ReporterFinal
    \/ MainResultsComplete \/ MainWait \/ MainCancelSeen \/ ShutdownWaiter
    \/ GracefulDone \/ GracefulTimeout \/ MainProgressWait
    \/ MainSummary \/ MainCheck \/ MainStop

Spec == Init /\ [][Next]_vars

\* ------------------------------------------------ worker count: the clamp
\* One call with up to MaxClampJobs jobs and every kind of request: negative,
\* zero, in range, above the ceiling.
InitClamp ==
    /\ \E n \in 0..MaxClampJobs : jobs \in [1..n -> JobChoices]
    /\ reqWorkers \in WorkerRequests
    /\ NotStarted

SpecClamp == InitClamp /\ [][Next]_vars

\* -------------------------------------------------------------- fairness
\* The Go scheduler runs every runnable goroutine, and a timer fires.  What
\* is not guaranteed: that a signal arrives (BridgeSignal) and that a handler
\* returns (HandlerReturn: processPhoto blocks on file and network I/O).
Fairness ==
    /\ WF_vars(Start)
    /\ WF_vars(BridgeStopped) /\ WF_vars(CancelFire(Bridge))
    /\ WF_vars(FeederSend) /\ WF_vars(FeederCancelled) /\ WF_vars(FeederClose)
    /\ WF_vars(WorkerDequeue \/ WorkerJobsClosed \/ WorkerCancelled)
    /\ WF_vars(WorkerCheck)
    /\ WF_vars(WorkerLockSrc) /\ WF_vars(WorkerLockTok)
    /\ WF_vars(WorkerRelSrc) /\ WF_vars(WorkerRelTok)
    /\ WF_vars(WorkerPublish \/ WorkerPublishCancelled)
    /\ WF_vars(CollectorRecv \/ CollectorCancelled) /\ WF_vars(CollectorUpdate)
    /\ WF_vars(CollectorDone)
    /\ WF_vars(ReporterTest) /\ WF_vars(ReporterTick \/ ReporterCancelled)
    /\ WF_vars(ReporterFinal)
    /\ WF_vars(MainResultsComplete \/ MainCancelSeen) /\ WF_vars(MainWait)
    /\ WF_vars(ShutdownWaiter) /\ WF_vars(GracefulDone \/ GracefulTimeout)
    /\ WF_vars(MainProgressWait) /\ WF_vars(MainSummary)
    /\ WF_vars(MainCheck) /\ WF_vars(MainStop)

InitFair ==
    /\ \E n \in 0..MaxFairJobs : jobs \in [1..n -> JobChoices]
    /\ reqWorkers \in PoolRequests
    /\ NotStarted

FairSpec == InitFair /\ [][Next]_vars /\ Fairness

\* The same scheduling with handlers that do return: every call of
\* processPhoto comes back with nil or an error.
FairHandlerSpec ==
    InitFair /\ [][Next]_vars /\ Fairness /\ WF_vars(HandlerReturn)

\* One worker and up to MaxJobs jobs, under the same scheduling: the feeder
\* has a list to work through and can be cancelled in the middle of it.
InitFeed ==
    /\ \E n \in 0..MaxJobs : jobs \in [1..n -> JobChoices]
    /\ reqWorkers = MinWorkers
    /\ NotStarted

FairFeedSpec == InitFeed /\ [][Next]_vars /\ Fairness

\* Runs whose handlers all return: no job, one job with one or two workers,
\* or up to MaxJobs jobs with one worker.
InitTerm == InitFair \/ InitFeed

FairTermSpec ==
    InitTerm /\ [][Next]_vars /\ Fairness /\ WF_vars(HandlerReturn)

\* ------------------------------------------- any number of signals
\* The run of FairSpec's input with up to MaxSignals termination signals,
\* delivered at any time between signal.Notify and signal.Stop.

\* The runtime delivers a signal: a send on sh.signals that does not block,
\* so a signal that finds the buffer full is dropped.
SignalDelivered ==
    /\ mainPc \notin {"start", "returned"}
    /\ sigCount < MaxSignals
    /\ sigCount' = sigCount + 1
    /\ sigBuf' = Min(SignalBuffer, sigBuf + 1)
    /\ UNCHANGED << lockOps, ptView, inVars, mainVars, cmVars, sigVars,
                    chanVars, feedVars, collVars, repVars, workVars, gsVars,
                    progress, libVars >>

\* (mutant) a bridge that goes back to listening after it has called Cancel
BridgeReceiveLoops ==
    /\ sigPc = "listen"
    /\ sigBuf > 0
    /\ sigBuf' = sigBuf - 1
    /\ CancelEnter(Bridge, "fire")
    /\ sigPc' = "listen"
    /\ UNCHANGED << lockOps, ptView, sigCount, shDone, inVars, mainVars,
                    chanVars, feedVars, collVars, repVars, workVars, gsVars,
                    progress, libVars >>

\* Start's goroutine: case sig := <-sh.signals: ... sh.cancelMgr.Cancel().
\* The select is not in a loop: the goroutine ends when Cancel returns.
BridgeReceive ==
    /\ sigPc = "listen"
    /\ sigBuf > 0
    /\ sigBuf' = sigBuf - 1
    /\ CancelEnter(Bridge, "fire")
    /\ sigPc' = "cancel"
    /\ UNCHANGED << lockOps, ptView, sigCount, shDone, inVars, mainVars,
                    chanVars, feedVars, collVars, repVars, workVars, gsVars,
                    progress, libVars >>

\* every step of the run but the signal
PoolSteps ==
    \/ Start
    \/ BridgeStopped \/ CancelFire(Bridge)
    \/ FeederSend \/ FeederCancelled \/ FeederClose
    \/ WorkerDequeue \/ WorkerJobsClosed \/ WorkerCancelled \/ WorkerCheck
    \/ WorkerLockSrc \/ WorkerLockTok \/ HandlerReturn
    \/ WorkerRelSrc \/ WorkerRelTok
    \/ WorkerPublish \/ WorkerPublishCancelled
    \/ CollectorRecv \/ CollectorUpdate \/ CollectorCancelled \/ CollectorDone
    \/ ReporterTest \/ ReporterTick \/ ReporterCancelled \/ ReporterFinal
    \/ MainResultsComplete \/ MainWait \/ MainCancelSeen \/ ShutdownWaiter
    \/ GracefulDone \/ GracefulTimeout \/ MainProgressWait
    \/ MainSummary \/ MainCheck \/ MainStop

NextSignals == PoolSteps \/ SignalDelivered \/ BridgeReceive

SpecSignals == InitFair /\ [][NextSignals]_vars

\* ------------------------------------- the CancellationManager on its own
\* MaxCallers goroutines call Cancel and CancelWithReason at any time, as
\* often as they like, on one CancellationManager.
ApiCancel(c) ==
    /\ callPc[c] \in {"idle", "returned"}
    /\ calls[c] < MaxCalls
    /\ CancelEnter(c, "fire")
    /\ UNCHANGED << inVars, apiVars, mainVars, chanVars, feedVars, collVars, repVars,
                    sigVars, workVars, gsVars, progress >>

ApiCancelWithReason(c) ==
    /\ callPc[c] \in {"idle", "returned"}
    /\ calls[c] < MaxCalls
    /\ CancelEnter(c, "fireReason")
    /\ UNCHANGED << inVars, apiVars, mainVars, chanVars, feedVars, collVars, repVars,
                    sigVars, workVars, gsVars, progress >>

\* a caller that is not inside Cancel calls IsCancelled()
ApiIsCancelled(c) ==
    /\ callPc[c] \in {"idle", "returned"}
    /\ CanReadCancelled
    /\ observed' = [observed EXCEPT ![c] =
                        IF IsCancelled THEN "cancelled" ELSE "running"]
    /\ UNCHANGED << cancelled, ctxDone, cmMu, callPc, cancelFired, calls,
                    dequeuedAtCancel >>
    /\ UNCHANGED << inVars, apiVars, mainVars, chanVars, feedVars, collVars, repVars,
                    sigVars, workVars, gsVars, progress >>

InitCancel ==
    /\ jobs = << >>
    /\ reqWorkers = MinWorkers
    /\ NotStarted

NextCancel ==
    \E c \in Callers \ {Bridge} :
        \/ ApiCancel(c)
        \/ ApiCancelWithReason(c)
        \/ CancelFire(c)
        \/ ApiIsCancelled(c)

SpecCancel == InitCancel /\ [][NextCancel]_vars

\* ------------------------------------------ the lock wrappers on their own
\* MaxLockCallers goroutines call WithFilelocks and WithBatchLocks on the
\* global FileLockManager, each up to MaxLockCalls times, with any path, any
\* list of directories and a function that returns nil or an error.

\* LockKey(directory, ".directory_lock"): joined, cleaned and lower-cased, so
\* the two spellings 1 and 2 of one directory give one key.
LockKey(d) == << "directory_lock", (d + 1) \div 2 >>

\* the directories argument of WithBatchLocks
DirLists == UNION { [1..n -> Dirs] : n \in 0..MaxDirs }

LockFrame == UNCHANGED << inVars, ptView, sigBuf, sigCount, libVars, mainVars, chanVars, feedVars,
                          collVars, repVars, sigVars, gsVars, cmVars, progress,
                          workers, wg, dequeued, handled, handlerFailed >>

CanCall(c) ==
    /\ lockOps[c].pc \in {"idle", "returned"}
    /\ lockOps[c].calls < MaxLockCalls

\* WithFilelocks(baseDir, filePath, fn) is called
CallWithFilelocks(c) ==
    \E p \in Paths :
        /\ CanCall(c)
        /\ lockOps' = [lockOps EXCEPT ![c] =
               [NoOp EXCEPT !.pc = "lockSrc", !.kind = "filelocks",
                            !.path = p, !.calls = lockOps[c].calls + 1]]
        /\ UNCHANGED locks
        /\ LockFrame

\* LockDirectory: flm.LockFile(filePath); lockedPaths = append(..., filePath)
FileLockSrc(c) ==
    /\ lockOps[c].pc = "lockSrc"
    /\ LockFile(FileKey(lockOps[c].path), c)
    /\ lockOps' = [lockOps EXCEPT
           ![c].pc = "lockTok",
           ![c].lockedPaths = << FileKey(lockOps[c].path) >>]
    /\ LockFrame

\* LockDirectory: flm.LockFile(targetLockPath); lockedPaths = append(...)
FileLockTok(c) ==
    /\ lockOps[c].pc = "lockTok"
    /\ LockFile(DirLockKey(lockOps[c].path), c)
    /\ lockOps' = [lockOps EXCEPT
           ![c].pc = "fn",
           ![c].lockedPaths = Append(@, DirLockKey(lockOps[c].path))]
    /\ LockFrame

\* (mutant) a failing fn() leaves the wrapper without the deferred release
FnReturnsLeaking(op, e, releasePc) ==
    IF e = "error"
      THEN [op EXCEPT !.pc = "returned", !.err = e]
      ELSE [op EXCEPT !.pc = releasePc, !.err = e]

\* return fn(): the result is kept and the deferred release runs, whatever
\* fn returned
FnReturns(op, e, releasePc) == [op EXCEPT !.pc = releasePc, !.err = e]

\* WithFilelocks: fn() returns; Release starts at lockedPaths[0]
FileFn(c) ==
    \E e \in FnResults :
        /\ lockOps[c].pc = "fn"
        /\ lockOps[c].kind = "filelocks"
        /\ lockOps' = [lockOps EXCEPT ![c] =
               [FnReturns(lockOps[c], e, "release") EXCEPT !.i = 1]]
        /\ UNCHANGED locks
        /\ LockFrame

\* Release: sfo.manager.UnlockFile(path) for the next of lockedPaths, in the
\* order they were locked; after the last one lockedPaths = nil and
\* WithFilelocks returns.
FileRelease(c) ==
    LET op == lockOps[c] IN
    /\ op.pc = "release"
    /\ UnlockFile(op.lockedPaths[op.i])
    /\ lockOps' = [lockOps EXCEPT ![c] =
           IF op.i = Len(op.lockedPaths)
             THEN [op EXCEPT !.pc = "returned", !.lockedPaths = << >>, !.i = 0]
             ELSE [op EXCEPT !.i = op.i + 1]]
    /\ LockFrame

\* WithBatchLocks(directories, fn) is called: one DirectoryLock per
\* directory, in the order of the argument, none locked.  LockAll of an
\* empty batch does nothing.
CallWithBatchLocks(c) ==
    \E ds \in DirLists :
        /\ CanCall(c)
        /\ lockOps' = [lockOps EXCEPT ![c] =
               [NoOp EXCEPT !.pc = IF ds = << >> THEN "batchFn" ELSE "lockAll",
                            !.kind = "batch", !.dirs = ds,
                            !.locked = [k \in 1..Len(ds) |-> FALSE],
                            !.i = 1, !.calls = lockOps[c].calls + 1]]
        /\ UNCHANGED locks
        /\ LockFrame

\* LockAll: the next lock.Lock() of the range over bl.locks
BatchLockNext(c) ==
    LET op == lockOps[c] IN
    /\ op.pc = "lockAll"
    /\ IF op.locked[op.i]
         THEN UNCHANGED locks
         ELSE LockFile(LockKey(op.dirs[op.i]), c)
    /\ lockOps' = [lockOps EXCEPT ![c] =
           [op EXCEPT !.locked[op.i] = TRUE,
                      !.i = op.i + 1,
                      !.pc = IF op.i = Len(op.dirs) THEN "batchFn" ELSE "lockAll"]]
    /\ LockFrame

\* WithBatchLocks: fn() returns; UnlockAll starts at the last lock
BatchFn(c) ==
    \E e \in FnResults :
        LET op == lockOps[c] IN
        /\ op.pc = "batchFn"
        /\ lockOps' = [lockOps EXCEPT ![c] =
               IF op.dirs = << >>
                 THEN [op EXCEPT !.pc = "returned", !.err = e]
                 ELSE [FnReturns(op, e, "unlockAll") EXCEPT !.i = Len(op.dirs)]]
        /\ UNCHANGED locks
        /\ LockFrame

\* UnlockAll: bl.locks[i].Unlock() from the last lock to the first; after
\* the first one WithBatchLocks returns.
BatchUnlockNext(c) ==
    LET op == lockOps[c] IN
    /\ op.pc = "unlockAll"
    /\ IF op.locked[op.i]
         THEN UnlockFile(LockKey(op.dirs[op.i]))
         ELSE UNCHANGED locks
    /\ lockOps' = [lockOps EXCEPT ![c] =
           [op EXCEPT !.locked[op.i] = FALSE,
                      !.i = op.i - 1,
                      !.pc = IF op.i = 1 THEN "returned" ELSE "unlockAll"]]
    /\ LockFrame

\* processMediaFile(mediaPath, destBasePath, false) is called:
\* WithFilelocks(destBasePath, mediaPath, processMediaFileInternal)
CallProcessMediaFile(c) ==
    \E p \in Paths :
        /\ CanCall(c)
        /\ lockOps' = [lockOps EXCEPT ![c] =
               [NoOp EXCEPT !.pc = "lockSrc", !.kind = "media",
                            !.path = p, !.calls = lockOps[c].calls + 1]]
        /\ UNCHANGED locks
        /\ LockFrame

\* (mutant) the move section entered without WithBatchLocks
MediaInternalNoDirLock(c) ==
    /\ lockOps[c].pc = "fn"
    /\ lockOps[c].kind = "media"
    /\ \E d \in Dirs :
          lockOps' = [lockOps EXCEPT ![c] =
              [lockOps[c] EXCEPT !.pc = "move", !.dirs = << d >>,
                                 !.locked = << FALSE >>]]
    /\ UNCHANGED locks
    /\ LockFrame

\* processMediaFileInternal up to WithBatchLocks([]string{newDir}, ...):
\* it returns an error (no GPS data, no location, no date), or it has
\* computed newDir from the date and the location of the file
MediaInternal(c) ==
    /\ lockOps[c].pc = "fn"
    /\ lockOps[c].kind = "media"
    /\ \/ lockOps' = [lockOps EXCEPT ![c] =
              [FnReturns(lockOps[c], "error", "release") EXCEPT !.i = 1]]
       \/ \E d \in Dirs :
              lockOps' = [lockOps EXCEPT ![c] =
                  [lockOps[c] EXCEPT !.pc = "dirLock", !.dirs = << d >>,
                                     !.locked = << FALSE >>]]
    /\ UNCHANGED locks
    /\ LockFrame

\* WithBatchLocks([]string{newDir}, ...): batch.LockAll()
MediaDirLock(c) ==
    /\ lockOps[c].pc = "dirLock"
    /\ LockFile(LockKey(lockOps[c].dirs[1]), c)
    /\ lockOps' = [lockOps EXCEPT ![c].pc = "move", ![c].locked = << TRUE >>]
    /\ LockFrame

\* the section under the lock: MkdirAll, the search for a free file name,
\* the rename; it returns nil or an error
MediaMove(c) ==
    \E e \in FnResults :
        /\ lockOps[c].pc = "move"
        /\ lockOps' = [lockOps EXCEPT ![c].pc = "dirUnlock", ![c].err = e]
        /\ UNCHANGED locks
        /\ LockFrame

\* (mutant) WithBatchLocks returns without its deferred UnlockAll
MediaDirUnlockLeaks(c) ==
    /\ lockOps[c].pc = "dirUnlock"
    /\ lockOps' = [lockOps EXCEPT ![c].pc = "release", ![c].i = 1]
    /\ UNCHANGED locks
    /\ LockFrame

\* the deferred batch.UnlockAll() of WithBatchLocks; processMediaFileInternal
\* returns and the deferred Release of WithFilelocks starts
MediaDirUnlock(c) ==
    /\ lockOps[c].pc = "dirUnlock"
    /\ IF lockOps[c].locked[1]
         THEN UnlockFile(LockKey(lockOps[c].dirs[1]))
         ELSE UNCHANGED locks
    /\ lockOps' = [lockOps EXCEPT ![c].pc = "release", ![c].i = 1,
                                  ![c].locked = << FALSE >>]
    /\ LockFrame

InitLocks ==
    /\ jobs = << >>
    /\ reqWorkers = MinWorkers
    /\ NotStarted

NextLocks ==
    \E c \in LockCallers :
        \/ CallWithFilelocks(c) \/ FileLockSrc(c) \/ FileLockTok(c)
        \/ FileFn(c) \/ FileRelease(c)
        \/ CallWithBatchLocks(c) \/ BatchLockNext(c)
        \/ BatchFn(c) \/ BatchUnlockNext(c)
        \/ CallProcessMediaFile(c) \/ MediaInternal(c) \/ MediaDirLock(c)
        \/ MediaMove(c) \/ MediaDirUnlock(c)

SpecLocks == InitLocks /\ [][NextLocks]_vars

\* Workers that only process media files: every caller runs processMediaFile
\* and each of its steps is taken once it stays possible (the body of the
\* handler returns, the scheduler runs every goroutine that can run).
MediaStep(c) ==
    \/ FileLockSrc(c) \/ FileLockTok(c) \/ MediaInternal(c)
    \/ MediaDirLock(c) \/ MediaMove(c) \/ MediaDirUnlock(c)
    \/ FileRelease(c)

NextMedia == \E c \in LockCallers : CallProcessMediaFile(c) \/ MediaStep(c)

FairMediaSpec ==
    InitLocks /\ [][NextMedia]_vars
        /\ \A c \in LockCallers : WF_vars(MediaStep(c))

\* ------------------------------------------ the ProgressTracker on its own
\* Any goroutines call Update, Skip, GetStats, IsComplete and
\* EstimateTimeRemaining on one tracker, in any order.  Every method holds
\* pt.mu from its first to its last statement, so each call is one step.
\* Update and Skip are called MaxTrackerCalls times at most.

TrackerFrame == UNCHANGED << inVars, lockOps, sigBuf, sigCount, libVars, mainVars, chanVars, feedVars,
                             collVars, repVars, sigVars, gsVars, cmVars,
                             workVars >>

TrackerCalls == progress.Completed + progress.Skipped

\* (mutant) Skip that takes the job back out of Completed
SkipMoves(pt) == [pt EXCEPT !.Skipped = @ + 1, !.Completed = @ - 1]

\* Skip: Skipped++
Skip(pt) == [pt EXCEPT !.Skipped = @ + 1]

\* GetStats: Total, Completed, Failed, Skipped (and the elapsed time)
GetStats(pt) ==
    [NoView EXCEPT !.op = "GetStats", !.total = pt.Total,
                   !.completed = pt.Completed, !.failed = pt.Failed,
                   !.skipped = pt.Skipped]

\* the values time.Since(pt.StartTime) can have
Elapsed == 0..MaxElapsed

\* (mutant) the estimate that multiplies before it divides
EstimateMultipliesFirst(pt, elapsed) ==
    LET remaining == pt.Total - pt.Completed - pt.Skipped IN
    IF pt.Completed = 0
      THEN 0
      ELSE IF remaining <= 0
             THEN 0
             ELSE (remaining * elapsed) \div pt.Completed

\* EstimateTimeRemaining, elapsed being time.Since(pt.StartTime): 0 when
\* nothing is completed; 0 when nothing remains; else remaining times
\* avgTimePerJob, the Duration (integer) quotient elapsed / Completed
EstimateTimeRemaining(pt, elapsed) ==
    LET remaining == pt.Total - pt.Completed - pt.Skipped IN
    IF pt.Completed = 0
      THEN 0
      ELSE IF remaining <= 0
             THEN 0
             ELSE LET avgTimePerJob == elapsed \div pt.Completed
                  IN  remaining * avgTimePerJob

\* pt.Update(success)
TrackerUpdate ==
    \E success \in BOOLEAN :
        /\ TrackerCalls < MaxTrackerCalls
        /\ progress' = Update(progress, success)
        /\ UNCHANGED ptView
        /\ TrackerFrame

\* pt.Skip()
TrackerSkip ==
    /\ TrackerCalls < MaxTrackerCalls
    /\ progress' = Skip(progress)
    /\ UNCHANGED ptView
    /\ TrackerFrame

\* pt.GetStats()
TrackerGetStats ==
    /\ ptView' = GetStats(progress)
    /\ UNCHANGED progress
    /\ TrackerFrame

\* pt.IsComplete()
TrackerIsComplete ==
    /\ ptView' = [NoView EXCEPT !.op = "IsComplete",
                                !.complete = IsComplete(progress)]
    /\ UNCHANGED progress
    /\ TrackerFrame

\* pt.EstimateTimeRemaining()
TrackerEstimate ==
    /\ \E elapsed \in Elapsed :
          ptView' = [NoView EXCEPT
              !.op = "EstimateTimeRemaining",
              !.elapsed = elapsed,
              !.remaining = progress.Total - progress.Completed
                                - progress.Skipped,
              !.eta = EstimateTimeRemaining(progress, elapsed)]
    /\ UNCHANGED progress
    /\ TrackerFrame

\* NewProgressTracker(total)
InitProgressApi ==
    /\ jobs = << >>
    /\ reqWorkers = MinWorkers
    /\ numWorkers = 0 /\ mainPc = "start" /\ retErr = FALSE
    /\ cancelled = FALSE /\ ctxDone = FALSE /\ cmMu = NoHolder /\ wg = 0
    /\ callPc = [c \in Callers |-> "idle"] /\ cancelFired = 0
    /\ calls = [c \in Callers |-> 0]
    /\ observed = [c \in Callers |-> "none"]
    /\ sigPc = "off" /\ shDone = FALSE /\ workers = EmptyBag
    /\ jobChan = << >> /\ jobClosed = FALSE /\ feedPc = "off" /\ feedIdx = 1
    /\ resultChan = << >> /\ results = << >> /\ collPc = "off" /\ collI = 0
    /\ resultsComplete = FALSE /\ repPc = "off" /\ rendered = << >>
    /\ locks = << >> /\ gsPc = "off" /\ workersDone = FALSE
    /\ gsResult = "none" /\ summary = NoSummary
    /\ dequeued = 0 /\ dequeuedAtCancel = 0
    /\ handled = {} /\ handlerFailed = {}
    /\ lockOps = [c \in LockCallers |-> NoOp]
    /\ ptView = NoView
    /\ sigBuf = 0
    /\ sigCount = 0
    /\ LibNotStarted
    /\ \E total \in 0..MaxTotal : progress = [InitProgress EXCEPT !.Total = total]

NextProgress ==
    \/ TrackerUpdate \/ TrackerSkip
    \/ TrackerGetStats \/ TrackerIsComplete \/ TrackerEstimate

SpecProgress == InitProgressApi /\ [][NextProgress]_vars

\* ------------------------------------------------- the move section
\* The workers of FairMediaSpec with the function under WithBatchLocks taken
\* step by step: MkdirAll, every os.Stat of the search for a free name, the
\* rename.  The destination tree holds any files before the run.  A path in
\* it is the directory as the file system sees it (two spellings that
\* differ in case are one directory), the file name and the numeric suffix
\* (0: none).

\* everything outside the functions and types checked on their own
PoolFrame == UNCHANGED << inVars, lockOps, ptView, sigBuf, sigCount, mainVars,
                          chanVars, feedVars, collVars, repVars, sigVars,
                          gsVars, cmVars, workVars, progress >>

\* what the move section leaves alone, but for the locks and its callers
MoveFrame == UNCHANGED << inVars, ptView, sigBuf, sigCount, mainVars,
                          chanVars, feedVars, collVars, repVars, sigVars,
                          gsVars, cmVars, progress, workers, wg, dequeued,
                          handled, handlerFailed, pjOps, gpsCache, gcOps, bp >>

\* newFilename: the names the date and the location give
FileNames == 1..MaxName

\* filepath.Join(newDir, name) for the name with this suffix
DestPath(d, base, k) == << (d + 1) \div 2, base, k >>

\* the whole section ends with an error
MoveFails(c) ==
    /\ lockOps' = [lockOps EXCEPT ![c].pc = "dirUnlock", ![c].err = "error"]
    /\ mvOps' = [mvOps EXCEPT ![c] = NoMove]
    /\ UNCHANGED << fs, landed >>

\* os.MkdirAll(newDir): an error, or finalPath := newPath; counter := 1
MoveMkdir(c) ==
    /\ lockOps[c].pc = "move"
    /\ lockOps[c].kind = "media"
    /\ mvOps[c].pc = "none"
    /\ \/ MoveFails(c)
       \/ \E b \in FileNames :
             /\ mvOps' = [mvOps EXCEPT ![c] =
                    [pc |-> "stat", base |-> b, counter |-> 1,
                     finalPath |-> DestPath(lockOps[c].dirs[1], b, 0)]]
             /\ UNCHANGED << lockOps, fs, landed >>
    /\ UNCHANGED locks
    /\ MoveFrame

\* one turn of the loop: os.Stat(finalPath) says the path does not exist
\* (break), or it says anything else (the file exists, or Stat failed):
\* the next name, counter++, and the error when counter > 1000
MoveStat(c) ==
    LET mv == mvOps[c] IN
    /\ mv.pc = "stat"
    /\ \/ /\ mv.finalPath \notin DOMAIN fs
          /\ mvOps' = [mvOps EXCEPT ![c].pc = "rename"]
          /\ UNCHANGED << lockOps, fs, landed >>
       \/ /\ IF mv.counter + 1 > MaxCounter
                THEN MoveFails(c)
                ELSE /\ mvOps' = [mvOps EXCEPT
                           ![c].finalPath =
                               DestPath(lockOps[c].dirs[1], mv.base, mv.counter),
                           ![c].counter = mv.counter + 1]
                     /\ UNCHANGED << lockOps, fs, landed >>
    /\ UNCHANGED locks
    /\ MoveFrame

\* os.Rename(mediaPath, finalPath): an error, or the file is at finalPath,
\* in the place of whatever was there
MoveRename(c) ==
    LET mv == mvOps[c]
        call == << c, lockOps[c].calls >>
    IN
    /\ mv.pc = "rename"
    /\ \/ MoveFails(c)
       \/ /\ fs' = [p \in DOMAIN fs \cup {mv.finalPath} |->
                       IF p = mv.finalPath THEN call ELSE fs[p]]
          /\ landed' = landed \cup
                 {[call |-> call, path |-> mv.finalPath,
                   existed |-> mv.finalPath \in DOMAIN fs]}
          /\ lockOps' = [lockOps EXCEPT ![c].pc = "dirUnlock",
                                        ![c].err = "nil"]
          /\ mvOps' = [mvOps EXCEPT ![c] = NoMove]
    /\ UNCHANGED locks
    /\ MoveFrame

\* the files of the destination tree before the run: none, or the first
\* names of a directory
InitMove ==
    /\ jobs = << >>
    /\ reqWorkers = MinWorkers
    /\ numWorkers = 0 /\ mainPc = "start" /\ retErr = FALSE
    /\ cancelled = FALSE /\ ctxDone = FALSE /\ cmMu = NoHolder /\ wg = 0
    /\ callPc = [c \in Callers |-> "idle"] /\ cancelFired = 0
    /\ calls = [c \in Callers |-> 0]
    /\ observed = [c \in Callers |-> "none"]
    /\ sigPc = "off" /\ shDone = FALSE /\ workers = EmptyBag
    /\ jobChan = << >> /\ jobClosed = FALSE /\ feedPc = "off" /\ feedIdx = 1
    /\ resultChan = << >> /\ results = << >> /\ collPc = "off" /\ collI = 0
    /\ resultsComplete = FALSE /\ repPc = "off" /\ rendered = << >>
    /\ locks = << >> /\ gsPc = "off" /\ workersDone = FALSE
    /\ gsResult = "none" /\ summary = NoSummary
    /\ dequeued = 0 /\ dequeuedAtCancel = 0
    /\ handled = {} /\ handlerFailed = {}
    /\ lockOps = [c \in LockCallers |-> NoOp]
    /\ ptView = NoView
    /\ sigBuf = 0 /\ sigCount = 0
    /\ progress = InitProgress
    /\ pjOps = [c \in JobCallers |-> NoJobOp]
    /\ mvOps = [c \in LockCallers |-> NoMove]
    /\ landed = {}
    /\ gpsCache = NoCache
    /\ gcOps = [c \in CacheCallers |-> NoCacheOp]
    /\ bp = NoBatch
    /\ \E n \in 0..MaxCounter :
          fs = [p \in { DestPath(1, 1, k) : k \in 0..(n - 1) } |-> PreExisting]

NextMove ==
    \E c \in LockCallers :
        \/ CallProcessMediaFile(c)
        \/ FileLockSrc(c) \/ FileLockTok(c) \/ MediaInternal(c)
        \/ MediaDirLock(c)
        \/ MoveMkdir(c) \/ MoveStat(c) \/ MoveRename(c)
        \/ MediaDirUnlock(c) \/ FileRelease(c)

SpecMove == InitMove /\ [][NextMove]_vars

\* ------------------------------------------------------------ GPSCache
\* Goroutines call IsFileProcessed, RecordFile, RemoveFile, Clear, Close and
\* CleanupStaleEntries on one GPSCache.  os.Stat answers anything: the files
\* are changed and deleted from outside.

CacheFrame == PoolFrame /\ UNCHANGED << pjOps, fs, mvOps, landed, bp >>

\* sync.RWMutex: RLock waits while a writer holds the mutex or waits for it
CanRLock == gpsCache.w = NoHolder /\ gpsCache.pending = {}
\* sync.RWMutex: Lock waits for the writer and for every reader
CanLock == gpsCache.w = NoHolder /\ gpsCache.r = {}

CacheStep(c, op) == gcOps' = [gcOps EXCEPT ![c] = op]

\* a method of the cache is called; RecordFile returns at once when
\* os.Stat fails, and Close is save() alone
CallCache(c) ==
    /\ gcOps[c].pc \in {"idle", "returned"}
    /\ gcOps[c].calls < MaxCacheCalls
    /\ \E m \in {"IsFileProcessed", "RecordFile", "RecordFileStatErr",
                  "RemoveFile", "Clear", "Close", "CleanupStaleEntries"} :
       \E p \in CachePaths :
          CacheStep(c, [NoCacheOp EXCEPT
              !.op = IF m = "RecordFileStatErr" THEN "RecordFile" ELSE m,
              !.path = IF m \in {"Clear", "Close", "CleanupStaleEntries"}
                         THEN 0 ELSE p,
              !.calls = gcOps[c].calls + 1,
              !.pc = CASE m = "IsFileProcessed" -> "rlock"
                       [] m = "RecordFileStatErr" -> "returned"
                       [] m = "Close" -> "saveRLock"
                       [] OTHER -> "lock"])
    /\ UNCHANGED gpsCache
    /\ CacheFrame

\* c.mu.Lock() is entered: from now on new readers wait
CacheLockEnter(c) ==
    /\ gcOps[c].pc = "lock"
    /\ gpsCache' = [gpsCache EXCEPT !.pending = @ \cup {c}]
    /\ CacheStep(c, [gcOps[c] EXCEPT !.pc = "lockWait"])
    /\ CacheFrame

\* c.mu.Lock() returns
CacheLock(c) ==
    /\ gcOps[c].pc = "lockWait"
    /\ CanLock
    /\ gpsCache' = [gpsCache EXCEPT !.w = c, !.pending = @ \ {c}]
    /\ CacheStep(c, [gcOps[c] EXCEPT !.pc = "write"])
    /\ CacheFrame

\* RecordFile, RemoveFile, Clear: the change of c.data, c.mu.Unlock(), and
\* the call of c.save()
CacheWrite(c) ==
    LET op == gcOps[c] IN
    /\ op.pc = "write"
    /\ op.op \in {"RecordFile", "RemoveFile", "Clear"}
    /\ gpsCache' = [gpsCache EXCEPT
           !.data = CASE op.op = "RecordFile" -> @ \cup {op.path}
                      [] op.op = "RemoveFile" -> @ \ {op.path}
                      [] OTHER -> {},
           !.w = NoHolder]
    /\ CacheStep(c, [op EXCEPT !.pc = "saveRLock"])
    /\ CacheFrame

\* CleanupStaleEntries under c.mu.Lock(): the entries whose file os.Stat
\* does not find are deleted; if removedCount > 0 it calls c.save(), still
\* holding the lock; the deferred c.mu.Unlock() comes after
CleanupStaleEntries(c) ==
    LET op == gcOps[c] IN
    /\ op.pc = "write"
    /\ op.op = "CleanupStaleEntries"
    /\ \E stale \in SUBSET gpsCache.data :
          /\ gpsCache' = [gpsCache EXCEPT !.data = @ \ stale]
          /\ CacheStep(c, [op EXCEPT
                 !.removed = Cardinality(stale),
                 !.ret = "unlock",
                 !.pc = IF stale # {} THEN "saveRLock" ELSE "unlock"])
    /\ CacheFrame

\* the deferred c.mu.Unlock() of CleanupStaleEntries
CleanupUnlock(c) ==
    /\ gcOps[c].pc = "unlock"
    /\ gpsCache' = [gpsCache EXCEPT !.w = NoHolder]
    /\ CacheStep(c, [gcOps[c] EXCEPT !.pc = "returned", !.ret = "returned"])
    /\ CacheFrame

\* save: c.mu.RLock()
SaveRLock(c) ==
    /\ gcOps[c].pc = "saveRLock"
    /\ CanRLock
    /\ gpsCache' = [gpsCache EXCEPT !.r = @ \cup {c}]
    /\ CacheStep(c, [gcOps[c] EXCEPT !.pc = "save"])
    /\ CacheFrame

\* save: MarshalIndent and WriteFile, which may fail; the deferred
\* c.mu.RUnlock(); the caller goes on
save(c) ==
    /\ gcOps[c].pc = "save"
    /\ \E ok \in BOOLEAN :
          gpsCache' = [gpsCache EXCEPT
              !.disk = IF ok THEN gpsCache.data ELSE @,
              !.r = @ \ {c}]
    /\ CacheStep(c, [gcOps[c] EXCEPT !.pc = gcOps[c].ret])
    /\ CacheFrame

\* IsFileProcessed: c.mu.RLock(), the first one and the one after RemoveFile
IsFileProcessedRLock(c) ==
    /\ gcOps[c].pc \in {"rlock", "rlockAgain"}
    /\ CanRLock
    /\ gpsCache' = [gpsCache EXCEPT !.r = @ \cup {c}]
    /\ CacheStep(c, [gcOps[c] EXCEPT
           !.pc = IF gcOps[c].pc = "rlock" THEN "read" ELSE "readAgain",
           !.ret = "returned"])
    /\ CacheFrame

\* IsFileProcessed under the read lock: os.Stat fails, or the file is not
\* in c.data, or it is there unchanged: return (the deferred RUnlock); or
\* it is there and has changed: c.mu.RUnlock() and c.RemoveFile(filePath)
IsFileProcessed(c) ==
    LET op == gcOps[c] IN
    /\ op.pc = "read"
    /\ gpsCache' = [gpsCache EXCEPT !.r = @ \ {c}]
    /\ \/ CacheStep(c, [op EXCEPT !.pc = "returned"])
       \/ /\ op.path \in gpsCache.data
          /\ CacheStep(c, [op EXCEPT !.pc = "lock", !.op = "RemoveFile",
                                     !.ret = "rlockAgain"])
    /\ CacheFrame

\* IsFileProcessed after RemoveFile: return false, false, nil with the
\* deferred c.mu.RUnlock()
IsFileProcessedReturn(c) ==
    /\ gcOps[c].pc = "readAgain"
    /\ gpsCache' = [gpsCache EXCEPT !.r = @ \ {c}]
    /\ CacheStep(c, [gcOps[c] EXCEPT !.pc = "returned",
                                     !.op = "IsFileProcessed"])
    /\ CacheFrame

InitCache ==
    /\ jobs = << >>
    /\ reqWorkers = MinWorkers
    /\ NotStarted

NextCache ==
    \E c \in CacheCallers :
        \/ CallCache(c) \/ CacheLockEnter(c) \/ CacheLock(c) \/ CacheWrite(c)
        \/ CleanupStaleEntries(c) \/ CleanupUnlock(c)
        \/ SaveRLock(c) \/ save(c)
        \/ IsFileProcessedRLock(c) \/ IsFileProcessed(c)
        \/ IsFileProcessedReturn(c)

SpecCache == InitCache /\ [][NextCache]_vars

\* ------------------------------------------------------- BatchProcessor
\* NewBatchProcessor(batchSize, workers), Start(ctx), ProcessPhoto for up to
\* MaxPhotos photos from one goroutine, then Stop(ctx).  The caller may
\* cancel ctx at any time.  AddPhoto and Flush hold bmu.mu from their first
\* statement to their last, processBatch included, so each is one step.

BatchFrame ==
    PoolFrame /\ UNCHANGED << pjOps, fs, mvOps, landed, gpsCache, gcOps >>

\* what processBatch can do: ExifTool succeeds, ExifTool fails, or the
\* argument file cannot be created
BatchOutcomes == {"ok", "exifFails", "argFileFails"}

\* processBatch: nothing for an empty batch; when createExifToolArgFile
\* fails it returns before the statistics and before pendingUpdates is
\* cleared; else updateBatchStats(batchSize, ..., err == nil) and
\* pendingUpdates = pendingUpdates[:0]
processBatch(b, outcome) ==
    IF b.pending = << >> \/ outcome = "argFileFails"
      THEN b
      ELSE [b EXCEPT
               !.BatchCount = @ + 1,
               !.ProcessedFiles = IF outcome = "ok" THEN @ + Len(b.pending) ELSE @,
               !.FailedFiles = IF outcome = "ok" THEN @ ELSE @ + Len(b.pending),
               !.batches = Append(@, b.pending),
               !.pending = << >>]

\* AddPhoto: append to pendingUpdates, TotalFiles++, and processBatch when
\* the batch is full
AddPhoto(b, photo, outcome) ==
    LET added == [b EXCEPT !.pending = Append(@, photo),
                           !.TotalFiles = @ + 1]
    IN  IF Len(added.pending) >= added.batchSize
          THEN processBatch(added, outcome)
          ELSE added

\* Flush: processBatch when photos are pending
Flush(b, outcome) ==
    IF Len(b.pending) > 0 THEN processBatch(b, outcome) ELSE b

\* ProcessPhoto: case bp.jobChan <- photo, the channel having room
BpProcessPhoto ==
    /\ bp.stopPc = "running"
    /\ bp.submitted < MaxPhotos
    /\ Len(bp.jobChan) < bp.workers * 2
    /\ bp' = [bp EXCEPT !.submitted = @ + 1,
                        !.jobChan = Append(@, bp.submitted + 1)]
    /\ BatchFrame

\* worker: case photo, ok := <-bp.jobChan with a photo
BpWorkerRecv(w) ==
    /\ bp.w[w].pc = "select"
    /\ bp.jobChan # << >>
    /\ bp' = [bp EXCEPT !.jobChan = Tail(@),
                        !.w[w] = [pc |-> "add", photo |-> Head(bp.jobChan)]]
    /\ BatchFrame

\* worker: bp.updater.AddPhoto(...) from bmu.mu.Lock() to the Unlock
BpWorkerAdd(w) ==
    /\ bp.w[w].pc = "add"
    /\ \E outcome \in BatchOutcomes :
          bp' = [AddPhoto(bp, bp.w[w].photo, outcome) EXCEPT
                    !.w[w] = [pc |-> "select", photo |-> 0]]
    /\ BatchFrame

\* worker: the channel is closed and empty: return, wg.Done()
BpWorkerClosed(w) ==
    /\ bp.w[w].pc = "select"
    /\ bp.closed /\ bp.jobChan = << >>
    /\ bp' = [bp EXCEPT !.w[w].pc = "done", !.wg = @ - 1]
    /\ BatchFrame

\* worker: case <-ctx.Done(): return, wg.Done()
BpWorkerCancelled(w) ==
    /\ bp.w[w].pc = "select"
    /\ bp.ctxDone
    /\ bp' = [bp EXCEPT !.w[w].pc = "done", !.wg = @ - 1]
    /\ BatchFrame

\* the caller cancels ctx
BpCancel ==
    /\ ~bp.ctxDone
    /\ bp.stopPc # "returned"
    /\ bp' = [bp EXCEPT !.ctxDone = TRUE]
    /\ BatchFrame

\* Stop: close(bp.jobChan)
BpStopClose ==
    /\ bp.stopPc = "running"
    /\ bp' = [bp EXCEPT !.closed = TRUE, !.stopPc = "wait"]
    /\ BatchFrame

\* Stop: bp.wg.Wait() returns; close(bp.doneChan); Flush; PrintStats; Close
BpStopFlush ==
    /\ bp.stopPc = "wait"
    /\ bp.wg = 0
    /\ \E outcome \in BatchOutcomes :
          bp' = [Flush(bp, outcome) EXCEPT
                    !.doneClosed = TRUE, !.stopPc = "returned",
                    !.err = (bp.pending # << >> /\ outcome # "ok")]
    /\ BatchFrame

\* NewBatchProcessor(batchSize, workers) and Start(ctx)
InitBatch ==
    /\ jobs = << >>
    /\ reqWorkers = MinWorkers
    /\ numWorkers = 0 /\ mainPc = "start" /\ retErr = FALSE
    /\ cancelled = FALSE /\ ctxDone = FALSE /\ cmMu = NoHolder /\ wg = 0
    /\ callPc = [c \in Callers |-> "idle"] /\ cancelFired = 0
    /\ calls = [c \in Callers |-> 0]
    /\ observed = [c \in Callers |-> "none"]
    /\ sigPc = "off" /\ shDone = FALSE /\ workers = EmptyBag
    /\ jobChan = << >> /\ jobClosed = FALSE /\ feedPc = "off" /\ feedIdx = 1
    /\ resultChan = << >> /\ results = << >> /\ collPc = "off" /\ collI = 0
    /\ resultsComplete = FALSE /\ repPc = "off" /\ rendered = << >>
    /\ locks = << >> /\ gsPc = "off" /\ workersDone = FALSE
    /\ gsResult = "none" /\ summary = NoSummary
    /\ dequeued = 0 /\ dequeuedAtCancel = 0
    /\ handled = {} /\ handlerFailed = {}
    /\ lockOps = [c \in LockCallers |-> NoOp]
    /\ ptView = NoView
    /\ sigBuf = 0 /\ sigCount = 0
    /\ progress = InitProgress
    /\ pjOps = [c \in JobCallers |-> NoJobOp]
    /\ fs = << >>
    /\ mvOps = [c \in LockCallers |-> NoMove]
    /\ landed = {}
    /\ gpsCache = NoCache
    /\ gcOps = [c \in CacheCallers |-> NoCacheOp]
    /\ \E n \in 1..MaxBatchWorkers : \E size \in 1..MaxBatchSize :
          bp = [NoBatch EXCEPT
                   !.workers = n, !.batchSize = size, !.wg = n,
                   !.w = [w \in 1..n |-> [pc |-> "select", photo |-> 0]]]

NextBatch ==
    \/ BpProcessPhoto \/ BpCancel \/ BpStopClose \/ BpStopFlush
    \/ \E w \in DOMAIN bp.w :
          \/ BpWorkerRecv(w) \/ BpWorkerAdd(w)
          \/ BpWorkerClosed(w) \/ BpWorkerCancelled(w)

SpecBatch == InitBatch /\ [][NextBatch]_vars

\* ------------------------------------------------ processJob on its own
\* Goroutines call processJob(job, ctx) with any job.  A "process" job
\* calls processPhoto, which returns nil, a *NoGPSError or another error
\* (or does not return); every other job type returns at once.

\* (mutant) a file without GPS data counts as processed
WorkResultNoGPSok(job, out) ==
    [Job |-> job, Success |-> (job.jobType = "process" /\ out # "error"),
     Message |-> "", Error |-> "nil"]

\* processJob: the WorkResult it builds for job, out being what
\* processPhoto returned when the job type is "process"
WorkResult(job, out) ==
    LET result == [Job |-> job, Success |-> FALSE, Message |-> "",
                   Error |-> "nil"]
    IN  CASE job.jobType = "process" ->
               IF out # "ok"
                 THEN IF out = "nogps"
                        THEN [result EXCEPT !.Message = "No GPS data",
                                            !.Success = FALSE]
                        ELSE [result EXCEPT !.Error = "err"]
                 ELSE [result EXCEPT !.Success = TRUE,
                                     !.Message = "Processed successfully"]
          [] job.jobType = "datetime" ->
               [result EXCEPT !.Message = "DateTime matching not yet implemented",
                              !.Success = FALSE]
          [] job.jobType = "clean" ->
               [result EXCEPT !.Message = "Clean operation not yet implemented",
                              !.Success = FALSE]
          [] OTHER -> [result EXCEPT !.Error = "unknown job type"]

\* processJob(job, ctx) is called, up to the return of processPhoto
CallProcessJob(c) ==
    \E job \in AllJobs :
        /\ pjOps[c].pc \in {"idle", "returned"}
        /\ pjOps' = [pjOps EXCEPT ![c] =
               IF job.jobType = "process"
                 THEN [NoJobOp EXCEPT !.pc = "processPhoto", !.job = job]
                 ELSE [NoJobOp EXCEPT !.pc = "returned", !.job = job,
                                      !.result = WorkResult(job, "none")]]
        /\ UNCHANGED << fs, mvOps, landed, gpsCache, gcOps, bp >>
        /\ PoolFrame

\* processPhoto returns and processJob returns its result
ProcessPhotoReturns(c) ==
    \E out \in Outcomes :
        /\ pjOps[c].pc = "processPhoto"
        /\ pjOps' = [pjOps EXCEPT ![c].pc = "returned", ![c].out = out,
                                  ![c].result = WorkResult(pjOps[c].job, out)]
        /\ UNCHANGED << fs, mvOps, landed, gpsCache, gcOps, bp >>
        /\ PoolFrame

InitJob ==
    /\ jobs = << >>
    /\ reqWorkers = MinWorkers
    /\ NotStarted

NextJob == \E c \in JobCallers : CallProcessJob(c) \/ ProcessPhotoReturns(c)

SpecJob == InitJob /\ [][NextJob]_vars

\* ================================================================ claims
ResultJobs == { results[i].job : i \in 1..Len(results) }
FailedResults == { i \in 1..Len(results) : ~results[i].success }
InHandler == WorkerAt("handler")

\* C1: when the collector finishes a run in which cancellation was never
\* requested, it has received exactly one result for each of the N jobs:
\* none lost, none duplicated, for one and for two workers.
C1_NoLostResults ==
    (collPc = "done" /\ ~cancelled) =>
        /\ Len(results) = NumJobs
        /\ ResultJobs = 1..NumJobs

C1_Witness ==
    /\ mainPc = "returned" /\ ~cancelled
    /\ NumJobs = MaxJobs /\ numWorkers = 2
    /\ Len(results) = MaxJobs

\* C2 as stated: without cancellation the summary has
\* completed + failed + skipped = N.
C2_SumWithFailedIsTotal ==
    (summary.printed /\ ~cancelled) =>
        summary.completed + summary.failed + summary.skipped = NumJobs

\* C2 as amended: without cancellation the summary has
\* completed + skipped = N, and failed, which is counted inside completed,
\* is the number of unsuccessful results.
C2_CompletedPlusSkippedIsTotal ==
    (summary.printed /\ ~cancelled) =>
        /\ summary.completed + summary.skipped = NumJobs
        /\ summary.failed = Cardinality(FailedResults)
        /\ summary.failed <= summary.completed

C2_Witness ==
    /\ summary.printed /\ ~cancelled
    /\ NumJobs = MaxJobs
    /\ summary.failed = 1 /\ summary.completed = MaxJobs

\* C3: two jobs with the same source path, or with the same predicted
\* directory (the hash bucket of the source path), are never inside the
\* handler (the function WithFilelocks runs) at the same time.
C3_NoOverlap ==
    \A w1 \in InHandler : \A w2 \in InHandler :
        /\ CopiesIn(w1, workers) = 1
        /\ (w1.job # w2.job) =>
              /\ jobs[w1.job].path # jobs[w2.job].path
              /\ predictTargetDirectory(jobs[w1.job].path)
                    # predictTargetDirectory(jobs[w2.job].path)

\* one job is in the handler while a job with another source file and the
\* same predicted directory waits for the directory's lock
C3_Witness ==
    \E w1 \in InHandler : \E w2 \in WorkerAt("lockTok") :
        /\ Clean(jobs[w1.job].path) # Clean(jobs[w2.job].path)
        /\ DirLockKey(jobs[w1.job].path) = DirLockKey(jobs[w2.job].path)

\* C4 (SpecCancel): however many calls of Cancel and CancelWithReason are
\* made, by however many goroutines, the guarded body runs at most once;
\* after it, a call changes neither the flag, nor the Done channel, nor the
\* count; a call that has returned leaves the flag set; and the flag is
\* never reset.
C4_IdempotentCancel ==
    /\ [](cancelFired <= 1)
    /\ []((\E c \in Callers : callPc[c] = "returned")
             => (cancelled /\ cancelFired = 1))
    /\ [][cancelled => /\ cancelled'
                       /\ cancelFired' = cancelFired
                       /\ (ctxDone => ctxDone')]_vars

\* three goroutines have each called twice and all calls have returned
C4_Witness ==
    /\ \A c \in Callers \ {Bridge} : calls[c] >= 2 /\ callPc[c] = "returned"
    /\ cancelled /\ ctxDone /\ cancelFired = 1

\* C5: from the moment Cancel has set the flag, and so once a Cancel call
\* has completed, no worker calls processJob: a worker that holds a
\* dequeued job re-checks the flag and returns.
CountAt(pc) == BagCardinality([w \in WorkerAt(pc) |-> CopiesIn(w, workers)])

C6_SumAtMostDequeued ==
    (summary.printed /\ cancelled /\ dequeuedAtCancel < NumJobs) =>
        summary.completed + summary.failed + summary.skipped <= dequeuedAtCancel

\* C6 as amended: cancelled after K < N dequeues, the summary has
\* completed + skipped <= K (failed is counted inside completed).
C6_CompletedAtMostDequeued ==
    (summary.printed /\ cancelled /\ dequeuedAtCancel < NumJobs) =>
        /\ summary.completed + summary.skipped <= dequeuedAtCancel
        /\ summary.failed <= summary.completed

C6_Witness ==
    /\ summary.printed /\ summary.cancelled
    /\ dequeuedAtCancel < NumJobs /\ dequeuedAtCancel >= 1
    /\ summary.completed = dequeuedAtCancel
    /\ dequeued > dequeuedAtCancel

\* C7 (FairSpec): once cancellation is requested the call returns, also
\* when a handler never returns (no fairness on HandlerReturn): the grace
\* timeout ends the wait for the workers.
C7_ReturnsAfterCancel == cancelled ~> (mainPc = "returned")

C9_FailureIsolated ==
    /\ \A i \in 1..Len(results) :
          results[i].job \in handlerFailed => ~results[i].success
    /\ BagIn(Gone, workers) => (cancelled \/ (jobClosed /\ jobChan = << >>))
    /\ (collPc = "done" /\ ~cancelled) => ResultJobs = 1..NumJobs

\* the first result is a failure of the handler and the next job was still
\* processed, by the only worker
C9_Witness ==
    /\ ~cancelled /\ collPc = "done" /\ numWorkers = 1
    /\ Len(results) = MaxJobs
    /\ results[1].job \in handlerFailed
    /\ results[MaxJobs].success

\* C10 (SpecClamp): for a negative, zero, in-range or too large request the
\* pool has max(1, min(16, w)) workers, all registered on the barrier, and a
\* run without cancellation still collects one result per job.
C10_WorkerCountClamped ==
    /\ (mainPc # "start") =>
          /\ numWorkers = Max(1, Min(16, reqWorkers))
          /\ BagCardinality(workers) = Max(1, Min(16, reqWorkers))
          /\ wg + CopiesIn(Gone, workers) = BagCardinality(workers)
    /\ (collPc = "done" /\ ~cancelled) => ResultJobs = 1..NumJobs

\* a request above the ceiling, run to the end with 16 workers
C10_Witness ==
    /\ reqWorkers > MaxWorkers /\ BagCardinality(workers) = MaxWorkers
    /\ mainPc = "returned" /\ ~cancelled
    /\ NumJobs = MaxClampJobs /\ Len(results) = NumJobs

\* ------------------------------------------------------------------- C11
\* The locks held by a caller of the lock wrappers
HeldBy(c) == { k \in DOMAIN locks : locks[k] = c }

\* C11: when WithFilelocks or WithBatchLocks has returned, whether fn()
\* returned nil or an error, the caller holds none of the locks: every lock
\* it acquired was released, its lockedPaths are empty and none of its
\* DirectoryLocks is marked locked.  The state after a failing call is the
\* state after a succeeding one.
C11_LocksReleasedOnError ==
    \A c \in LockCallers :
        lockOps[c].pc = "returned" =>
            /\ HeldBy(c) = {}
            /\ lockOps[c].lockedPaths = << >>
            /\ \A i \in 1..Len(lockOps[c].locked) : ~lockOps[c].locked[i]

\* a failing WithBatchLocks over two directories has returned, and another
\* caller has since acquired the same two locks
C11_Witness ==
    /\ lockOps[1].pc = "returned" /\ lockOps[1].err = "error"
    /\ lockOps[1].kind = "batch" /\ lockOps[1].dirs = << 1, 3 >>
    /\ lockOps[2].pc = "batchFn" /\ lockOps[2].dirs = << 1, 3 >>
    /\ HeldBy(2) = { LockKey(1), LockKey(3) }

\* ------------------------------------------------------------------- C12
\* a worker has received job j from the job channel and has not published
\* its result
InFlight(j) == \E w \in BagToSet(workers) : w.job = j
\* a result of job j was sent on the result channel
Published(j) ==
    \/ \E i \in 1..Len(resultChan) : resultChan[i].job = j
    \/ j \in ResultJobs

\* C12 as stated: every job a worker dequeues eventually has a Result
\* published, in every run, cancelled or not.
C12_EveryDequeuedJobPublished ==
    \A j \in 1..MaxFairJobs : InFlight(j) ~> Published(j)

\* C12 amended: every job a worker dequeues eventually has a Result
\* published or cancellation has been requested.  A worker that sees the
\* cancellation at its re-check after the dequeue, or while it waits to
\* publish, returns without a Result for the job.
C12_PublishedUnlessCancelled ==
    \A j \in 1..MaxFairJobs : InFlight(j) ~> (Published(j) \/ cancelled)

\* a job whose handler failed was published in a run without cancellation
C12_Witness ==
    /\ ~cancelled /\ Published(1) /\ 1 \in handlerFailed
    /\ dequeued = 1 /\ ~InFlight(1)

\* ------------------------------------------------------------------- C13
\* how often job j is found in the sequence of job indices q
Occurrences(q, j) == Cardinality({ i \in 1..Len(q) : q[i] = j })
\* how many workers hold job j
Holders(j) ==
    LET ws == { w \in BagToSet(workers) : w.job = j }
        RECURSIVE Sum(_)
        Sum(S) == IF S = {} THEN 0
                  ELSE LET w == CHOOSE x \in S : TRUE
                       IN CopiesIn(w, workers) + Sum(S \ {w})
    IN Sum(ws)
\* how many results of job j were published
ResultsOf(j) ==
    Cardinality({ i \in 1..Len(resultChan) : resultChan[i].job = j })
      + Cardinality({ i \in 1..Len(results) : results[i].job = j })

\* C13: every job is in one place at most: on the job channel, with one
\* worker, or published as one result.  So it is dequeued by at most one
\* worker and has at most one Result.  A worker that is about to call
\* processJob holds a job for which processJob was not called before, so the
\* handler runs at most once per job.
C13_AtMostOnce ==
    /\ \A j \in 1..NumJobs :
          /\ Occurrences(jobChan, j) + Holders(j) + ResultsOf(j) <= 1
          /\ ResultsOf(j) <= 1
    /\ \A w \in WorkerAt("check") : w.job \notin handled
    /\ dequeued <= NumJobs

\* two workers hold the two jobs at the same time, both in the handler path
C13_Witness ==
    /\ numWorkers = 2 /\ NumJobs = MaxJobs
    /\ Holders(1) = 1 /\ Holders(2) = 1
    /\ handled = {1, 2}

\* ------------------------------------------------------------------- C14
\* the jobs the feeder has not placed on the job channel
NeverFed == NumJobs - (feedIdx - 1)

\* C14 as stated: in the final summary, total - (completed + failed +
\* skipped) is the number of jobs the feeder never placed on the job queue.
C14_DeltaIsNeverFed ==
    (mainPc = "returned" /\ feedPc = "done") =>
        summary.total - (summary.completed + summary.failed + summary.skipped)
            = NeverFed

\* C14 amended: failed is counted inside completed, and in the final summary
\* total - (completed + skipped) is at least the number of jobs the feeder
\* never placed on the job queue.  It is that number, zero, in a run that
\* was not cancelled; after a cancellation it also counts the jobs that were
\* fed and whose result was not collected.
C14_DeltaAtLeastNeverFed ==
    summary.printed =>
        /\ summary.total = NumJobs
        /\ summary.failed <= summary.completed
        /\ summary.total - (summary.completed + summary.skipped) >= NeverFed
        /\ ~summary.cancelled =>
              /\ summary.total - (summary.completed + summary.skipped) = 0
              /\ NeverFed = 0

\* a cancelled run that fed one of two jobs and collected none
C14_Witness ==
    /\ mainPc = "returned" /\ feedPc = "done" /\ summary.cancelled
    /\ NumJobs = MaxJobs /\ NeverFed = 1
    /\ summary.completed = 0 /\ summary.total = MaxJobs

\* ------------------------------------------------------------------- C15
\* C15: when the orchestrator assembles the final summary the collector has
\* finished, on the normal and on the cancellation path, and the completed
\* count of the summary is the length of the result list.
C15_SummaryAfterCollection ==
    [][(mainPc = "summary" /\ mainPc' = "check") =>
          /\ collPc = "done"
          /\ summary'.completed = Len(results)]_vars

\* ------------------------------------------------------------------- C16
\* workers that wait in LockFile for a lock another job holds
LockWaiters ==
    { w \in WorkerAt("lockSrc") : Held(FileKey(jobs[w.job].path)) }
      \cup { w \in WorkerAt("lockTok") : Held(DirLockKey(jobs[w.job].path)) }

\* C16: once cancellation is signalled, nothing keeps waiting except in the
\* handler: a worker waiting for a job, a worker waiting to publish, the
\* feeder, the collector and the shutdown driver each have a step that ends
\* the wait, and no worker is left waiting for a lock that another holds.
C16_CancellationObservedAtEveryWait ==
    ctxDone =>
        /\ WorkerAt("select") # {} => ENABLED WorkerCancelled
        /\ WorkerAt("publish") # {} => ENABLED WorkerPublishCancelled
        /\ (feedPc = "send" /\ feedIdx <= NumJobs) => ENABLED FeederCancelled
        /\ (collPc = "recv" /\ CollectorLoop(collI)) => ENABLED CollectorCancelled
        /\ mainPc = "graceful" => ENABLED (GracefulDone \/ GracefulTimeout)
        /\ LockWaiters = {}

\* ------------------------------------------------------------------- C17
\* the keys a WithBatchLocks call asks for
BatchKeys(c) == { LockKey(lockOps[c].dirs[i]) : i \in 1..Len(lockOps[c].dirs) }
\* the key the caller is blocked on in LockAll, if it is
BlockedOn(c) ==
    IF /\ lockOps[c].pc = "lockAll"
       /\ Held(LockKey(lockOps[c].dirs[lockOps[c].i]))
      THEN { LockKey(lockOps[c].dirs[lockOps[c].i]) }
      ELSE {}

\* C17: two concurrent WithBatchLocks calls over the same set of
\* directories, in whatever order each was given them, never deadlock: they
\* are never each blocked in LockAll on a lock the other holds.
C17_NoBatchDeadlock ==
    \A c1, c2 \in LockCallers :
        (/\ c1 # c2
         /\ lockOps[c1].kind = "batch" /\ lockOps[c2].kind = "batch"
         /\ BatchKeys(c1) = BatchKeys(c2)
         /\ Cardinality(BatchKeys(c1)) = Len(lockOps[c1].dirs)
         /\ Cardinality(BatchKeys(c2)) = Len(lockOps[c2].dirs))
        => ~(/\ BlockedOn(c1) # {} /\ BlockedOn(c1) \subseteq HeldBy(c2)
             /\ BlockedOn(c2) # {} /\ BlockedOn(c2) \subseteq HeldBy(c1))

\* ------------------------------------------------------------------- C18
\* the keys a caller of the wrappers has locked and not yet unlocked,
\* by its own record: lockedPaths still to be released, and the
\* DirectoryLocks marked locked
OwnKeys(c) ==
    LET op == lockOps[c] IN
    { op.lockedPaths[i] :
          i \in (IF op.pc = "release" THEN op.i ELSE 1)..Len(op.lockedPaths) }
      \cup { LockKey(op.dirs[i]) : i \in { k \in 1..Len(op.locked) : op.locked[k] } }

\* C18: no key is locked by two callers at once, where paths that normalize
\* to one key are one key; and a held lock changes hands only after its
\* holder has unlocked it.
C18_ExclusiveLock ==
    /\ [](\A c1, c2 \in LockCallers :
             c1 # c2 => OwnKeys(c1) \cap OwnKeys(c2) = {})
    /\ [](\A c \in LockCallers : OwnKeys(c) = HeldBy(c))
    /\ [][\A k \in DOMAIN locks :
             Held(k) => locks'[k] \in {locks[k], NoHolder}]_vars

\* one caller holds the lock of path 1 while the other waits in LockFile for
\* path 2, another spelling of the same file
C18_Witness ==
    /\ lockOps[1].pc = "fn" /\ lockOps[1].path = 1
    /\ lockOps[2].pc = "lockSrc" /\ lockOps[2].path = 2
    /\ FileKey(1) = FileKey(2)
    /\ locks[FileKey(2)] = 1

\* ------------------------------------------------------------------- C19
\* C19: in every state of the tracker, after any sequence of Update(true),
\* Update(false) and Skip() calls, completed >= failed.
C19_CompletedAtLeastFailed == progress.Completed >= progress.Failed

\* every call was a failing Update, after a Skip: failed has caught up with
\* completed
C19_Witness ==
    /\ progress.Skipped = 1
    /\ progress.Failed = MaxTrackerCalls - 1
    /\ progress.Completed = progress.Failed

\* ------------------------------------------------------------------- C20
\* C20: completed, failed and skipped never decrease and total never
\* changes; GetStats, IsComplete and EstimateTimeRemaining change none of
\* the four counters.
C20_CountersMonotone ==
    /\ [][/\ progress'.Completed >= progress.Completed
          /\ progress'.Failed >= progress.Failed
          /\ progress'.Skipped >= progress.Skipped
          /\ progress'.Total = progress.Total]_vars
    /\ [][ptView' # ptView => progress' = progress]_vars

\* the counters have grown, and a read has returned them
C20_Witness ==
    /\ ptView.op = "GetStats"
    /\ ptView.completed = 2 /\ ptView.failed = 1 /\ ptView.skipped = 1
    /\ ptView.total = MaxTotal
    /\ progress.Completed = 2 /\ progress.Skipped = 1

\* ------------------------------------------------------------------- C21
\* C21: the reporter renders no final snapshot while it runs and exactly one
\* when it has returned, on each of its ways out; the snapshot carries
\* [CANCELLED] exactly when the cancelled flag is set at the moment it is
\* rendered.
C21_OneFinalSnapshot ==
    /\ [](repPc = "done" => Len(rendered) = 1)
    /\ [](repPc # "done" => Len(rendered) = 0)
    /\ [][rendered' # rendered =>
             rendered' = Append(rendered, [cancelledTag |-> cancelled])]_vars

\* the reporter left after a cancellation, with jobs still to do, and
\* rendered its one snapshot with the annotation
C21_Witness ==
    /\ repPc = "done" /\ ~IsComplete(progress)
    /\ cancelled /\ NumJobs = MaxJobs
    /\ rendered = << [cancelledTag |-> TRUE] >>

\* ------------------------------------------------------------------- C22
\* everything but the signal buffer and the count of delivered signals
RunState == << lockOps, ptView, inVars, mainVars, cmVars, sigVars, chanVars,
               feedVars, collVars, repVars, workVars, gsVars, progress >>

\* C22: whatever signals are delivered during a run, the bridge calls Cancel
\* once at most; once it has received its first signal it never listens
\* again, and a signal delivered when it is not listening changes nothing
\* but the buffer of the signal channel.
C22_BridgeCancelsOnce ==
    /\ [](calls[Bridge] <= 1 /\ cancelFired <= 1)
    /\ [][(sigPc \in {"cancel", "exit"}) => (sigPc' = sigPc)]_vars
    /\ [][(sigCount' # sigCount /\ sigPc # "listen")
             => (RunState' = RunState)]_vars

\* three signals were delivered: the first was received and cancelled the
\* run, the second stays in the buffer, the third was dropped
C22_Witness ==
    /\ sigCount = MaxSignals /\ sigBuf = SignalBuffer
    /\ calls[Bridge] = 1 /\ cancelFired = 1
    /\ sigPc = "cancel" /\ mainPc = "returned" /\ retErr

\* ------------------------------------------------------------------- C23
\* C23: the barrier counts the workers that have not returned.  Each of the
\* numWorkers workers registered by AddWorker takes one off the count when it
\* returns, whichever way it leaves its loop, so the count is never negative
\* and is zero when all workers have returned.
C23_BarrierCountsWorkers ==
    /\ wg >= 0
    /\ mainPc # "start" =>
          /\ BagCardinality(workers) = numWorkers
          /\ wg = numWorkers - CopiesIn(Gone, workers)
    /\ (mainPc # "start" /\ BagToSet(workers) = {Gone}) => wg = 0

\* two workers have returned, one of them at the re-check after it had
\* dequeued job 1: the job was never handled and the barrier is at zero
C23_Witness ==
    /\ numWorkers = 2 /\ BagToSet(workers) = {Gone} /\ wg = 0
    /\ dequeued = 1 /\ handled = {} /\ cancelled

\* ------------------------------------------------------------------- C24
\* C24: the feeder always ends, and the job channel is closed exactly when
\* it has ended.  While it feeds, the channel has room for the next job, so
\* it never waits on a full queue; once it has returned, on cancellation or
\* at the end of the list, no job is enqueued any more.
C24_FeederTerminates ==
    /\ (feedPc = "send") ~> (feedPc = "done" /\ jobClosed)
    /\ []((feedPc = "send" /\ feedIdx <= NumJobs) => Len(jobChan) < NumJobs)
    /\ [](jobClosed <=> feedPc = "done")
    /\ [][(feedPc = "done") =>
             (feedPc' = "done" /\ feedIdx' = feedIdx
              /\ Len(jobChan') <= Len(jobChan))]_vars

\* the feeder was cancelled in the middle of the list: it has sent one of
\* two jobs, has returned and the channel is closed
C24_Witness ==
    /\ feedPc = "done" /\ jobClosed /\ cancelled
    /\ NumJobs = MaxJobs /\ feedIdx = MaxJobs

\* ------------------------------------------------------------------- C25
\* the jobs for which processJob has returned its result
Finished ==
    { j \in handled :
        \A w \in BagToSet(workers) :
            w.job = j => w.pc \notin {"lockSrc", "lockTok", "handler",
                                      "relSrc", "relTok"} }

\* C25: completed counts collected results only, each the result of a
\* processJob call that has returned, and failed counts the unsuccessful
\* ones among them.  A job that was never dequeued, or was dequeued and
\* dropped at the re-check, has no result and is counted nowhere.
C25_CountersCountFinishedJobs ==
    /\ progress.Completed <= Cardinality(Finished)
    /\ progress.Completed <= Len(results)
    /\ progress.Failed <= Cardinality(FailedResults)
    /\ progress.Failed <= progress.Completed
    /\ ResultJobs \subseteq Finished
    /\ \A j \in 1..NumJobs : j \notin handled => ~Published(j)

\* a cancelled run: both jobs were dequeued, one was processed and counted,
\* the other was dropped at the re-check and is not counted
C25_Witness ==
    /\ cancelled /\ BagToSet(workers) = {Gone} /\ collPc = "done"
    /\ NumJobs = MaxJobs /\ dequeued = MaxJobs
    /\ Cardinality(handled) = 1 /\ progress.Completed = 1

\* ------------------------------------------------------------------- C26
\* C26: GracefulShutdown returns nil only when the barrier is at zero and
\* every started worker has returned; from then on that stays so.
C26_GracefulOnlyWhenDrained ==
    /\ [][(gsResult # "nil" /\ gsResult' = "nil") =>
             (wg = 0 /\ BagToSet(workers) \subseteq {Gone})]_vars
    /\ [](gsResult = "nil" => (wg = 0 /\ BagToSet(workers) \subseteq {Gone}))
    /\ [](workersDone => wg = 0)

\* a graceful shutdown of two workers, one of which had a job in its handler
\* when the cancellation came
C26_Witness ==
    /\ gsResult = "nil" /\ numWorkers = 2 /\ wg = 0
    /\ dequeuedAtCancel = 1 /\ handled = {1} /\ 1 \in handlerFailed

\* The key a lock wrapper acquired last among those it still holds: the
\* directory locks follow the paths of the SafeFileOperation, each list in
\* the order of its acquisition.
LastAcquired(c) ==
    LET op == lockOps[c]
        ks == { k \in 1..Len(op.locked) : op.locked[k] }
        first == IF op.pc = "release" THEN op.i ELSE 1
    IN  IF ks # {}
          THEN { LockKey(op.dirs[CHOOSE k \in ks : \A j \in ks : j <= k]) }
          ELSE IF first <= Len(op.lockedPaths)
                 THEN { op.lockedPaths[Len(op.lockedPaths)] }
                 ELSE {}

\* C27 as stated: a wrapper that releases a lock releases the one it
\* acquired last among those it still holds, so WithFilelocks and
\* WithBatchLocks both release in the reverse order of acquisition.
C27_ReleaseInReverseOrder ==
    [][\A c \in LockCallers : \A k \in HeldBy(c) :
          (~(k \in DOMAIN locks' /\ locks'[k] = c)) => (k \in LastAcquired(c))]_vars

\* a caller inside the section that picks the file name and moves the file
InMove(c) == lockOps[c].pc = "move"

\* C29: a caller inside the section that picks a free file name and moves
\* the file holds the lock of the destination directory and the lock of
\* the source file, and no two callers are inside the section for one
\* destination directory (directories with one lock key are one directory).
C29_MoveUnderLocks ==
    /\ \A c \in LockCallers :
          InMove(c) =>
              /\ LockKey(lockOps[c].dirs[1]) \in HeldBy(c)
              /\ FileKey(lockOps[c].path) \in HeldBy(c)
    /\ \A c1, c2 \in LockCallers :
          (c1 # c2 /\ InMove(c1) /\ InMove(c2)) =>
              LockKey(lockOps[c1].dirs[1]) # LockKey(lockOps[c2].dirs[1])

C29_Witness ==
    \E c1, c2 \in LockCallers :
        /\ c1 # c2
        /\ InMove(c1) /\ lockOps[c2].pc = "dirLock"
        /\ lockOps[c1].dirs = lockOps[c2].dirs
        /\ FileKey(lockOps[c1].path) # FileKey(lockOps[c2].path)
        /\ ~ENABLED MediaDirLock(c2)

\* printCancellableProcessingSummary: the numbers it prints, by line.
\* "Progress: %d/%d processed" prints Processed and Total; Completion is
\* the percentage (completed + skipped) / total in tenths of a percent,
\* rounded as %.1f rounds.  The other lines are the status, the total
\* time, the average time, the error breakdown and the tip.
SummaryCounts(s) ==
    [Processed  |-> s.completed,
     Total      |-> s.total,
     Successful |-> s.completed - s.failed,
     Failed     |-> s.failed,
     Skipped    |-> s.skipped,
     Completion |-> IF s.total > 0
                      THEN ((s.completed + s.skipped) * 2000 + s.total)
                               \div (2 * s.total)
                      ELSE 0]

\* the status line and the tip to run the command again
SummaryStatus(s) == IF s.cancelled THEN "CANCELLED" ELSE "COMPLETED"
SummaryTip(s) == s.cancelled

\* C28 as stated: the summary has a line for the completed, the failed,
\* the skipped and the not-started count, and after a cancellation the
\* not-started line gives the total minus the jobs processed.
C28_SummaryStatesNotStarted ==
    summary.printed =>
        /\ {"Processed", "Failed", "Skipped", "NotStarted"}
               \subseteq DOMAIN SummaryCounts(summary)
        /\ SummaryStatus(summary) = "CANCELLED" =>
               SummaryCounts(summary)["NotStarted"]
                   = summary.total - summary.completed

\* C30: EstimateTimeRemaining returns 0 when Completed is 0 or when
\* Total - Completed - Skipped is not positive, and else
\* (Total - Completed - Skipped) times the integer quotient of the elapsed
\* time by Completed, whatever Update and Skip have made of the counters.
C30_EstimateFormula ==
    [][(ptView' # ptView /\ ptView'.op = "EstimateTimeRemaining") =>
          LET left == progress.Total - progress.Completed - progress.Skipped
          IN  /\ (progress.Completed = 0 \/ left <= 0) => ptView'.eta = 0
              /\ (progress.Completed # 0 /\ left > 0) =>
                     ptView'.eta =
                         left * (ptView'.elapsed \div progress.Completed)]_vars

C30_Witness ==
    /\ ptView.op = "EstimateTimeRemaining"
    /\ progress.Total = MaxTotal /\ progress.Completed = 2
    /\ progress.Skipped = 0
    /\ ptView.remaining = 2 /\ ptView.elapsed = 3 /\ ptView.eta = 2

\* C31: the result of processJob has Success = true only for a "process"
\* job whose handler returned no error; a handler error, a file without GPS
\* data, a "datetime" job, a "clean" job and a job of an unknown type each
\* give Success = false; and the result names the job that was passed in.
C31_SuccessOnlyForProcessedJob ==
    \A c \in JobCallers :
        pjOps[c].pc = "returned" =>
            /\ pjOps[c].result.Success
                  <=> (pjOps[c].job.jobType = "process" /\ pjOps[c].out = "ok")
            /\ pjOps[c].result.Job = pjOps[c].job

C31_Witness ==
    /\ pjOps[1].pc = "returned" /\ pjOps[2].pc = "returned"
    /\ pjOps[1].job = [path |-> MaxPath, jobType |-> "process"]
    /\ pjOps[1].out = "nogps" /\ ~pjOps[1].result.Success
    /\ pjOps[2].job = [path |-> 2, jobType |-> "other"]
    /\ pjOps[2].result.Error = "unknown job type"

\* the call has returned nil and every goroutine it started has ended
Terminated ==
    /\ mainPc = "returned" /\ ~retErr
    /\ feedPc = "done" /\ jobClosed
    /\ BagToSet(workers) \subseteq {Gone} /\ wg = 0
    /\ collPc = "done" /\ repPc = "done"

\* C32 (FairTermSpec): when every handler returns and cancellation is never
\* requested, the call returns nil, for an empty list too: the feeder has
\* closed the queue, every worker has returned, the collector and the
\* reporter have stopped, the barrier is at zero and the signal goroutine
\* ends.
C32_TerminatesWithoutCancel ==
    /\ <>(cancelled \/ (Terminated /\ sigPc = "exit"))
    /\ []((mainPc = "returned" /\ ~cancelled) => Terminated)

C32_Witness ==
    /\ Terminated /\ sigPc = "exit" /\ ~cancelled
    /\ NumJobs = MaxJobs /\ handlerFailed = {1}
    /\ Len(results) = MaxJobs

\* C33 (SpecCancel): whenever the Done channel of the context is closed the
\* flag is set, so IsCancelled() is true and ShouldContinue() is false; and
\* a call of IsCancelled() made once the channel is closed returns true,
\* whatever Cancel and CancelWithReason calls run beside it.
C33_DoneImpliesFlag ==
    /\ [](ctxDone => (cancelled /\ IsCancelled /\ ~ShouldContinue))
    /\ [][ctxDone => \A c \in Callers :
                         observed'[c] \in {observed[c], "cancelled"}]_vars

\* one caller read the flag before the cancellation and another after it,
\* and a caller has made all its Cancel calls
C33_Witness ==
    \E c1, c2, c3 \in Callers \ {Bridge} :
        /\ ctxDone /\ cmMu = NoHolder
        /\ observed[c1] = "running" /\ observed[c2] = "cancelled"
        /\ callPc[c3] = "returned" /\ calls[c3] = MaxCalls
        /\ c1 # c2

\* a caller is waiting for, or about to take, one of its three locks
AtLock(c) == lockOps[c].pc \in {"lockSrc", "lockTok", "dirLock"}

\* C34 (FairMediaSpec): the source file lock, the token of the predicted
\* directory and the lock of the destination directory, taken in that order
\* by every worker, never deadlock: when the handler bodies return, a
\* worker that waits for one of the three locks gets it, and its call
\* returns with every lock released.
C34_NestedLocksNoDeadlock ==
    /\ \A c \in LockCallers :
          /\ (lockOps[c].pc = "lockSrc") ~> (lockOps[c].pc = "lockTok")
          /\ (lockOps[c].pc = "lockTok") ~> (lockOps[c].pc = "fn")
          /\ (lockOps[c].pc = "dirLock") ~> (lockOps[c].pc = "move")
          /\ AtLock(c) ~> (lockOps[c].pc = "returned" /\ HeldBy(c) = {})
    /\ []((\A c \in LockCallers : AtLock(c)) =>
             (\E c \in LockCallers : ENABLED MediaStep(c)))

\* two workers with different source files: one holds its three locks, the
\* other holds its file lock and waits for the token the first one holds
C34_Witness ==
    \E c1, c2 \in LockCallers :
        /\ InMove(c1)
        /\ lockOps[c2].pc = "lockTok" /\ ~ENABLED FileLockTok(c2)
        /\ FileKey(lockOps[c1].path) # FileKey(lockOps[c2].path)

\* C35 as stated: a call of WithBatchLocks is never blocked in LockAll on a
\* lock it holds itself, also when its list names one directory twice or
\* two directories with one lock key.
C35_NoSelfBlock ==
    \A c \in LockCallers :
        lockOps[c].kind = "batch" => BlockedOn(c) \cap HeldBy(c) = {}

\* the candidate names of the move section for a file name in a directory
Candidates(d, b) == { DestPath(d, b, k) : k \in 0..(MaxCounter - 1) }

\* C36 (SpecMove): every rename that succeeds puts the file on a path that
\* did not exist, so no two jobs end on one path and no file that was there
\* before is replaced; a call whose section returns nil has moved its file;
\* and a caller for which every candidate name is taken is not about to
\* rename.
C36_MovesNeverOverwrite ==
    /\ \A r \in landed : ~r.existed
    /\ \A r1, r2 \in landed : r1.path = r2.path => r1 = r2
    /\ \A p \in DOMAIN fs :
          \/ fs[p] = PreExisting
          \/ \E r \in landed : r.path = p /\ r.call = fs[p]
    /\ \A c \in LockCallers :
          /\ (lockOps[c].pc = "dirUnlock" /\ lockOps[c].err = "nil") =>
                 \E r \in landed : r.call = << c, lockOps[c].calls >>
          /\ (mvOps[c].pc = "rename") =>
                 /\ mvOps[c].finalPath \notin DOMAIN fs
                 /\ mvOps[c].finalPath
                        \in Candidates(lockOps[c].dirs[1], mvOps[c].base)

\* two callers moved a file of one name into one directory, under its two
\* spellings, and a third call found both names taken and failed
C36_Witness ==
    \E c \in LockCallers :
        /\ lockOps[c].pc = "dirUnlock" /\ lockOps[c].err = "error"
        /\ lockOps[c].dirs = << 2 >>
        /\ Candidates(2, 1) \subseteq DOMAIN fs
        /\ \E r1, r2 \in landed :
              /\ r1.call[1] # r2.call[1]
              /\ r1.path = DestPath(1, 1, 0) /\ r2.path = DestPath(1, 1, 1)

\* the goroutine holds c.mu, for writing or for reading
HoldsCacheMu(c) == gpsCache.w = c \/ c \in gpsCache.r

\* C37 as stated: a goroutine that has returned from a method of the
\* GPSCache holds no part of c.mu, and a goroutine that is about to lock
\* c.mu, in the method or in save(), does not hold it already.
C37_CacheLockReleased ==
    \A c \in CacheCallers :
        /\ gcOps[c].pc \in {"idle", "returned"} => ~HoldsCacheMu(c)
        /\ gcOps[c].pc \in {"lock", "lockWait", "rlock", "rlockAgain",
                             "saveRLock"} => ~HoldsCacheMu(c)

\* the photos of the batches that were processed
Batched(p) == { i \in 1..Len(bp.batches) :
                  \E k \in 1..Len(bp.batches[i]) : bp.batches[i][k] = p }

\* C38 as stated: once Stop has returned, on a context that was not
\* cancelled, every photo submitted before is in exactly one batch,
\* TotalFiles = ProcessedFiles + FailedFiles and no photo is pending,
\* whatever the worker count, the batch size and the outcome of the batches.
C38_EveryPhotoCountedOnce ==
    (bp.stopPc = "returned" /\ ~bp.ctxDone) =>
        /\ \A p \in 1..bp.submitted : Cardinality(Batched(p)) = 1
        /\ bp.TotalFiles = bp.ProcessedFiles + bp.FailedFiles
        /\ bp.pending = << >>
====
